---- MODULE Spec2Model ----
(***************************************************************************)
(* Data cleaning and dual-store persistence of the education / economic    *)
(* analysis scripts.                                                       *)
(*                                                                         *)
(* The repository holds several copies of DatabaseManager.  The copy a     *)
(* run uses is fixed at construction and kept in the variable `copy`:      *)
(*   "ea"    src/education_analysis/src/data_processing/db_manager.py      *)
(*   "taba"  src/ProgrammingForAI-taba/education_analysis/src/             *)
(*           data_processing/db_manager.py                                 *)
(*   "inbox" src/inbox/education_analysis/scripts/data_processing/         *)
(*           db_manager.py                                                 *)
(***************************************************************************)
EXTENDS Integers, Sequences, FiniteSets, TLC

\* ------------------------------------------------------------------ bounds
\* Objects (engines, connections, clients) one manager creates in a run.
MaxObjects == 2

\* Rows a frame passed to a save or insert holds.
MaxFrame == 1
\* Rows the relational database holds over both tables.
MaxRows == 2
\* Documents the MongoDB collection holds.
MaxDocs == 2
\* Rows of a frame saved in batches, and rows the table then holds.
MaxBatchRows == 3
\* Records one Eurostat fetch yields.
MaxRecords == 2
\* Calls of collect_and_store_education_data in one run.
MaxRuns == 2
\* Rows of a frame handed to DataCleaner, and times it is cleaned.
MaxCleanRows == 4
MaxPasses == 2
\* Rows of a frame handed to the education-analysis DataCleaner.
MaxEduRows == 5
\* Python's None for an object reference; objects are numbered from 1.
None == 0

\* A nullable value: Null (NaN / NULL) is the empty tuple, v is <<v>>.
Null == <<>>
Some(v) == <<v>>

Countries == {"DE"}
CountryOrder == <<"DE">>
\* value_vars = [str(year) for year in range(2012, 2022)]: the model keeps
\* the first two year columns.
FirstYear == 2012
YearCols == {FirstYear, FirstYear + 1}
Vals == {Null, Some(1)}

Tables == {"education_data", "economic_data"}

\* A long-format row, as stored: country is geo_time_period / country /
\* country_code, value is value / gdp_growth.
Rows == [country : Countries, year : YearCols, value : Vals]
\* A row of the wide Eurostat frame: one value per year column.
WideRows == [geo : Countries, vals : [YearCols -> Vals]]

\* A document as the callers build it from a record.
DocVals == {Some(1), Some(2)}
Docs == [country : Countries, year : YearCols, value : DocVals]

SeqsUpTo(S, n) == UNION {[1..k -> S] : k \in 0..n}
Range(f) == {f[i] : i \in DOMAIN f}
LongFrames == SeqsUpTo(Rows, MaxFrame)
WideFrames == SeqsUpTo(WideRows, MaxFrame)
DocLists == SeqsUpTo(Docs, MaxFrame)

Copies == {"ea", "taba", "inbox"}

VARIABLES
    copy,        \* which DatabaseManager copy this manager is
    env,         \* the process environment read by __init__ / connect_*
    self,        \* the DatabaseManager's fields
    made,        \* engines, connections and clients created so far
    mongo,       \* the documents of the MongoDB collection, in insertion
                 \* order (one such sequence per collection in the
                 \* economic analysis runs)
    db,          \* the relational database: per table, whether it exists
                 \* and its rows in insertion order
    last,        \* the outcome of the last call (what the caller observes)
    nb,          \* the notebook's collect_and_store_education_data run:
                 \* its arguments, its position and the two stores it
                 \* writes
    frame,       \* the DataFrame handed to DataCleaner, changed in place
    cache,       \* the files of the collector's cache directory: per file
                 \* name, Null or its modification time and its content
    now          \* datetime.now(), in ticks of half a day

vars == <<copy, env, self, made, mongo, db, last, nb, frame, cache, now>>

\* ------------------------------------------------------------ construction
\* env.testing_sqlite: TESTING = 'true' and DB_TYPE = 'sqlite'
\* env.pg_cfg:    POSTGRES_HOST, _DB, _USER and _PASSWORD are all set
\* env.mongo_cfg: MONGODB_HOST, _USER, _PASSWORD and _DB are all set
\* env.db_bool_raises: the installed pymongo raises NotImplementedError on
\*                truth-testing a Database object (pymongo >= 4)
Envs ==
    [testing_sqlite : BOOLEAN, pg_cfg : BOOLEAN, mongo_cfg : BOOLEAN,
     db_bool_raises : BOOLEAN]

\* DatabaseManager.__init__: every handle starts as None.
DatabaseManager__init__(c, e) ==
    [pg_conn |-> None, pg_engine |-> None,
     mongo_client |-> None, mongo_db |-> None,
     sqlite_conn |-> None, sqlite_engine |-> None,
     use_sqlite |-> (c # "inbox" /\ e.testing_sqlite)]

NoObjects == [engine |-> 0, conn |-> 0, client |-> 0]

Idle == [op |-> "init", raised |-> FALSE]

\* The result of a call on the manager: its fields, the objects made, and
\* whether the call raised to its caller.
Outcome(s, m, r) == [self |-> s, made |-> m, raised |-> r]

NewEngine(m) == [m EXCEPT !.engine = @ + 1]
NewConn(m)   == [m EXCEPT !.conn = @ + 1]
NewClient(m) == [m EXCEPT !.client = @ + 1]

\* ------------------------------------------------------------- connect_*
\* `up` is whether the server accepts the connection at the time of the call.

\* ProgrammingForAI-taba copy.
taba_connect_postgres(s, m, e, up) ==
    IF s.use_sqlite THEN Outcome(s, m, FALSE)
    ELSE IF ~e.pg_cfg
         THEN \* ValueError inside the try: dispose, reset, re-raise
              Outcome([s EXCEPT !.pg_engine = None, !.pg_conn = None], m, TRUE)
    ELSE IF s.pg_conn = None
         THEN LET m1 == NewEngine(m) IN
              IF up
              THEN LET m2 == NewConn(m1) IN
                   Outcome([s EXCEPT !.pg_engine = m1.engine,
                                     !.pg_conn = m2.conn], m2, FALSE)
              ELSE Outcome([s EXCEPT !.pg_engine = None, !.pg_conn = None],
                           m1, TRUE)
    ELSE Outcome(s, m, FALSE)

\* A variant whose handler leaves mongo_db as the failed attempt set it.
taba_connect_mongo_keeps_db(s, m, e, up) ==
    LET m1 == NewClient(m) IN
    IF e.mongo_cfg /\ up
    THEN Outcome([s EXCEPT !.mongo_client = m1.client,
                           !.mongo_db = m1.client], m1, FALSE)
    ELSE Outcome([s EXCEPT !.mongo_client = None, !.mongo_db = m1.client],
                 m1, TRUE)

taba_connect_mongo(s, m, e, up) ==
    LET m1 == NewClient(m) IN
    IF e.mongo_cfg /\ up
    THEN Outcome([s EXCEPT !.mongo_client = m1.client,
                           !.mongo_db = m1.client], m1, FALSE)
    ELSE \* mongo_client[None] or the ping raises: close, reset, re-raise
         Outcome([s EXCEPT !.mongo_client = None, !.mongo_db = None], m1, TRUE)

\* education_analysis copy.
ea_connect_postgres(s, m, e, up) ==
    IF s.use_sqlite
    THEN LET m1 == NewEngine(m)
             m2 == NewConn(m1) IN
         Outcome([s EXCEPT !.sqlite_engine = m1.engine,
                           !.sqlite_conn = m2.conn], m2, FALSE)
    ELSE IF s.pg_conn = None
         THEN LET m1 == NewEngine(m) IN
              IF e.pg_cfg /\ up
              THEN LET m2 == NewConn(m1) IN
                   Outcome([s EXCEPT !.pg_engine = m1.engine,
                                     !.pg_conn = m2.conn], m2, FALSE)
              ELSE \* engine.connect() raises; the handler only logs
                   Outcome([s EXCEPT !.pg_engine = m1.engine], m1, TRUE)
    ELSE Outcome(s, m, FALSE)

\* MongoClient(uri) does not contact the server and the uri has a default.
ea_connect_mongo(s, m, e, up) ==
    LET m1 == NewClient(m) IN
    Outcome([s EXCEPT !.mongo_client = m1.client, !.mongo_db = m1.client],
            m1, FALSE)

\* inbox copy: returns False instead of raising.
inbox_connect_postgres(s, m, e, up) ==
    IF up
    THEN LET m1 == NewConn(m) IN
         Outcome([s EXCEPT !.pg_conn = m1.conn], m1, FALSE)
    ELSE Outcome(s, m, FALSE)

inbox_connect_mongodb(s, m, e, up) ==
    LET m1 == NewClient(m) IN
    Outcome([s EXCEPT !.mongo_client = m1.client, !.mongo_db = m1.client],
            m1, FALSE)

\* The connect of the copy in use.
connect_postgres(c, s, m, e, up) ==
    CASE c = "taba"  -> taba_connect_postgres(s, m, e, up)
      [] c = "ea"    -> ea_connect_postgres(s, m, e, up)
      [] c = "inbox" -> inbox_connect_postgres(s, m, e, up)

connect_mongo(c, s, m, e, up) ==
    CASE c = "taba"  -> taba_connect_mongo(s, m, e, up)
      [] c = "ea"    -> ea_connect_mongo(s, m, e, up)
      [] c = "inbox" -> inbox_connect_mongodb(s, m, e, up)

\* close_connections (ea and taba copies): closes and forgets the
\* connections; the engines and mongo_db are left as they are.
taba_close_connections(s) ==
    [s EXCEPT !.pg_conn = None, !.mongo_client = None]

ea_close_connections(s) ==
    [s EXCEPT !.pg_conn = None, !.sqlite_conn = None, !.mongo_client = None]

close_connections(c, s) ==
    IF c = "ea" THEN ea_close_connections(s) ELSE taba_close_connections(s)

\* ------------------------------------------------------ relational store
\* The result of a call that touches the database: the manager's fields,
\* the objects made, the database, whether the call raised, what it
\* returned (a frame) and the batches it wrote.
Res(s, m, d, r, ret, bts) ==
    [self |-> s, made |-> m, db |-> d, raised |-> r, ret |-> ret,
     batches |-> bts]

Min(a, b) == IF a < b THEN a ELSE b

\* A batch count that rounds down: the rows after the last full batch are
\* never written.
NumBatches_rounded_down(total_rows, batch_size) == total_rows \div batch_size

\* num_batches = (total_rows + batch_size - 1) // batch_size
NumBatches(total_rows, batch_size) ==
    (total_rows + batch_size - 1) \div batch_size

\* data.iloc[start_idx:end_idx] of batch i (i counts from 0 as in the loop)
Batch(data, batch_size, i) ==
    SubSeq(data, i * batch_size + 1, Min((i + 1) * batch_size, Len(data)))

Batches(data, batch_size) ==
    [k \in 1..NumBatches(Len(data), batch_size) |->
        Batch(data, batch_size, k - 1)]

\* batch.to_sql(name, con=engine, if_exists='append'): appends the rows,
\* creating the table when it does not exist.
ToSql(d, t, batch) ==
    [d EXCEPT ![t] = [exists |-> TRUE, rows |-> @.rows \o batch]]

RECURSIVE WriteBatches(_, _, _, _)
\* The first k passes of the loop over the batches.
WriteBatches(d, t, bts, k) ==
    IF k = 0 THEN d
    ELSE ToSql(WriteBatches(d, t, bts, k - 1), t, bts[k])

\* The loop `for i in range(num_batches)`: each to_sql commits on its own;
\* a to_sql that raises (fail_at, 0 for none) ends the loop and the rows of
\* the batches before it stay.
SaveLoop(s, m, d, t, data_to_save, batch_size, works, fail_at) ==
    LET bts == Batches(data_to_save, batch_size)
        num == Len(bts)
        f == IF num > 0 /\ ~works THEN 1
             ELSE IF fail_at > num THEN 0 ELSE fail_at
        written == IF f = 0 THEN num ELSE f - 1
    IN Res(s, m, WriteBatches(d, t, bts, written), f # 0, <<>>,
           SubSeq(bts, 1, written))

\* Whether a statement sent through the manager's engine reaches a server.
EaEngineWorks(s, e, up) ==
    IF s.use_sqlite THEN s.sqlite_engine # None
    ELSE s.pg_engine # None /\ e.pg_cfg /\ up

TabaEngineWorks(s, e, up) == s.pg_engine # None /\ e.pg_cfg /\ up

\* `if not self.pg_engine and not self.sqlite_engine: self.connect_postgres()`
EaEngineGuard(s, m, e, up) ==
    IF s.pg_engine = None /\ s.sqlite_engine = None
    THEN ea_connect_postgres(s, m, e, up) ELSE Outcome(s, m, FALSE)

\* `if not self.pg_conn and not self.sqlite_conn: self.connect_postgres()`
EaConnGuard(s, m, e, up) ==
    IF s.pg_conn = None /\ s.sqlite_conn = None
    THEN ea_connect_postgres(s, m, e, up) ELSE Outcome(s, m, FALSE)

\* `if not self.pg_engine: self.connect_postgres()`
TabaEngineGuard(s, m, e, up) ==
    IF s.pg_engine = None
    THEN taba_connect_postgres(s, m, e, up) ELSE Outcome(s, m, FALSE)

\* `if not self.pg_conn: self.connect_postgres()`
TabaConnGuard(s, m, e, up) ==
    IF s.pg_conn = None
    THEN taba_connect_postgres(s, m, e, up) ELSE Outcome(s, m, FALSE)

\* education_analysis copy: append the frame batch by batch.
ea_save_to_postgres(s, m, e, d, t, data, batch_size, up, fail_at) ==
    LET c == EaEngineGuard(s, m, e, up) IN
    IF c.raised THEN Res(c.self, c.made, d, TRUE, <<>>, <<>>)
    ELSE SaveLoop(c.self, c.made, d, t, data, batch_size,
                  EaEngineWorks(c.self, e, up), fail_at)

\* data.melt(id_vars, value_vars=[str(year) ...]): year column by year
\* column, the rows in input order within each.
RECURSIVE MeltFrom(_, _)
MeltFrom(data, y) ==
    IF y \notin YearCols THEN <<>>
    ELSE [i \in 1..Len(data) |->
             [country |-> data[i].geo, year |-> y,
              value |-> data[i].vals[y]]]
         \o MeltFrom(data, y + 1)

Melt(data) == MeltFrom(data, FirstYear)

\* melted_data.dropna(subset=['value'])
DropNa(rows) == SelectSeq(rows, LAMBDA r : r.value # Null)

\* ProgrammingForAI-taba copy: truncate the table, reshape, then append the
\* frame batch by batch.
taba_save_to_postgres(s, m, e, d, t, data, batch_size, up, fail_at) ==
    LET c == TabaEngineGuard(s, m, e, up) IN
    IF c.raised THEN Res(c.self, c.made, d, TRUE, <<>>, <<>>)
    ELSE IF ~TabaEngineWorks(c.self, e, up) \/ ~d[t].exists
         THEN \* pg_engine is None under SQLite, the server refuses, or
              \* TRUNCATE names a missing table
              Res(c.self, c.made, d, TRUE, <<>>, <<>>)
    ELSE LET truncated == [d EXCEPT ![t].rows = <<>>]
             data_to_save == IF t = "education_data"
                             THEN DropNa(Melt(data)) ELSE data
         IN SaveLoop(c.self, c.made, truncated, t, data_to_save, batch_size,
                     TRUE, fail_at)

\* conn.cursor() on the SQLAlchemy Connection that engine.connect()
\* returned: Connection has no cursor attribute, the call raises
\* AttributeError.
ConnectionHasCursor == FALSE

\* education_analysis copy of insert_education_data / insert_economic_data:
\* one INSERT per row through conn.cursor(), commit; on any exception log
\* and roll back without re-raising.
ea_insert_data(s, m, e, d, t, data, up) ==
    LET c == EaConnGuard(s, m, e, up) IN
    IF c.raised
    THEN \* the handler's conn.rollback() finds conn unbound and raises
         Res(c.self, c.made, d, TRUE, <<>>, <<>>)
    ELSE IF Len(data) > 0 /\ ~ConnectionHasCursor
         THEN Res(c.self, c.made, d, FALSE, <<>>, <<>>)
    ELSE IF ~d[t].exists \/ ~EaEngineWorks(c.self, e, up)
         THEN Res(c.self, c.made, d, FALSE, <<>>, <<>>)
    ELSE Res(c.self, c.made, [d EXCEPT ![t].rows = @ \o data], FALSE,
             <<>>, <<data>>)

\* batch_size: int = 1000
DefaultBatchSize == 1000

\* ProgrammingForAI-taba copy: insert_* delegates to save_to_postgres and
\* re-raises.
taba_insert_data(s, m, e, d, t, data, up, fail_at) ==
    taba_save_to_postgres(s, m, e, d, t, data, DefaultBatchSize, up, fail_at)

CountryRank(c) == CHOOSE i \in 1..Len(CountryOrder) : CountryOrder[i] = c

\* ORDER BY year, geo_time_period
RowBefore(a, b) ==
    \/ a.year < b.year
    \/ a.year = b.year /\ CountryRank(a.country) < CountryRank(b.country)

RECURSIVE InsertSorted(_, _)
InsertSorted(sorted, r) ==
    IF sorted = <<>> THEN <<r>>
    ELSE IF RowBefore(r, Head(sorted)) THEN <<r>> \o sorted
    ELSE <<Head(sorted)>> \o InsertSorted(Tail(sorted), r)

RECURSIVE OrderBy(_)
OrderBy(rows) ==
    IF rows = <<>> THEN <<>>
    ELSE InsertSorted(OrderBy(SubSeq(rows, 1, Len(rows) - 1)),
                      rows[Len(rows)])

\* SELECT * FROM education_data WHERE value IS NOT NULL
\* ORDER BY year, geo_time_period
EducationQuery(d) ==
    OrderBy(SelectSeq(d["education_data"].rows, LAMBDA r : r.value # Null))

ea_get_education_data(s, m, e, d, up) ==
    LET c == EaEngineGuard(s, m, e, up) IN
    IF c.raised \/ ~EaEngineWorks(c.self, e, up)
               \/ ~d["education_data"].exists
    THEN Res(c.self, c.made, d, TRUE, <<>>, <<>>)
    ELSE Res(c.self, c.made, d, FALSE, EducationQuery(d), <<>>)

taba_get_education_data(s, m, e, d, up) ==
    LET c == TabaEngineGuard(s, m, e, up) IN
    IF c.raised \/ ~TabaEngineWorks(c.self, e, up)
               \/ ~d["education_data"].exists
    THEN Res(c.self, c.made, d, TRUE, <<>>, <<>>)
    ELSE Res(c.self, c.made, d, FALSE, EducationQuery(d), <<>>)

\* SELECT * FROM economic_data; any exception is logged and an empty frame
\* is returned.
ea_get_economic_data(s, m, e, d, up) ==
    LET c == EaConnGuard(s, m, e, up) IN
    IF c.raised \/ ~EaEngineWorks(c.self, e, up)
               \/ ~d["economic_data"].exists
    THEN Res(c.self, c.made, d, FALSE, <<>>, <<>>)
    ELSE Res(c.self, c.made, d, FALSE, d["economic_data"].rows, <<>>)

taba_get_economic_data(s, m, e, d, up) ==
    LET c == TabaConnGuard(s, m, e, up) IN
    IF c.raised \/ ~TabaEngineWorks(c.self, e, up)
               \/ ~d["economic_data"].exists
    THEN Res(c.self, c.made, d, FALSE, <<>>, <<>>)
    ELSE Res(c.self, c.made, d, FALSE, d["economic_data"].rows, <<>>)

\* education_analysis copy: CREATE TABLE IF NOT EXISTS for both tables.
ea_create_tables(s, m, e, d, up) ==
    LET c == EaConnGuard(s, m, e, up) IN
    IF c.raised \/ ~EaEngineWorks(c.self, e, up)
    THEN Res(c.self, c.made, d, TRUE, <<>>, <<>>)
    ELSE Res(c.self, c.made,
             [t \in Tables |-> [exists |-> TRUE, rows |-> d[t].rows]],
             FALSE, <<>>, <<>>)

\* A variant of the taba create_tables without its two DROP TABLE statements.
taba_create_tables_without_drop(s, m, e, d, up) ==
    LET c == TabaConnGuard(s, m, e, up) IN
    IF c.raised \/ ~TabaEngineWorks(c.self, e, up)
    THEN Res(c.self, c.made, d, TRUE, <<>>, <<>>)
    ELSE Res(c.self, c.made,
             [t \in Tables |-> [exists |-> TRUE, rows |-> d[t].rows]],
             FALSE, <<>>, <<>>)

\* ProgrammingForAI-taba copy: DROP TABLE IF EXISTS, then CREATE, for both
\* tables, in one committed transaction.
taba_create_tables(s, m, e, d, up) ==
    LET c == TabaConnGuard(s, m, e, up) IN
    IF c.raised \/ ~TabaEngineWorks(c.self, e, up)
    THEN Res(c.self, c.made, d, TRUE, <<>>, <<>>)
    ELSE Res(c.self, c.made,
             [t \in Tables |-> [exists |-> TRUE, rows |-> <<>>]],
             FALSE, <<>>, <<>>)

\* The operation of the copy in use.
save_to_postgres(c, s, m, e, d, t, data, batch_size, up, fail_at) ==
    IF c = "ea"
    THEN ea_save_to_postgres(s, m, e, d, t, data, batch_size, up, fail_at)
    ELSE taba_save_to_postgres(s, m, e, d, t, data, batch_size, up, fail_at)

insert_data(c, s, m, e, d, t, data, up, fail_at) ==
    IF c = "ea" THEN ea_insert_data(s, m, e, d, t, data, up)
    ELSE taba_insert_data(s, m, e, d, t, data, up, fail_at)

get_education_data(c, s, m, e, d, up) ==
    IF c = "ea" THEN ea_get_education_data(s, m, e, d, up)
    ELSE taba_get_education_data(s, m, e, d, up)

get_economic_data(c, s, m, e, d, up) ==
    IF c = "ea" THEN ea_get_economic_data(s, m, e, d, up)
    ELSE taba_get_economic_data(s, m, e, d, up)

create_tables(c, s, m, e, d, up) ==
    IF c = "ea" THEN ea_create_tables(s, m, e, d, up)
    ELSE taba_create_tables(s, m, e, d, up)

\* The frames a caller passes: the taba save of education_data takes the
\* wide Eurostat frame, every other save a long frame.
FramesFor(c, t) ==
    IF c = "taba" /\ t = "education_data" THEN WideFrames ELSE LongFrames

TotalRows(d) == Len(d["education_data"].rows) + Len(d["economic_data"].rows)

\* --------------------------------------------------------- document store
MongoRes(s, m, coll, r) == [self |-> s, made |-> m, mongo |-> coll, raised |-> r]

\* The client behind self.mongo_db was closed by close_connections (which
\* forgets mongo_client and keeps mongo_db).
MongoDbClosed(s) == s.mongo_db # None /\ s.mongo_client # s.mongo_db

\* coll.insert_many(documents): raises on an empty list, when the server
\* cannot be reached, and (pymongo >= 4) on a closed client; otherwise
\* every document is added.
InsertMany(s, m, e, coll, documents, up) ==
    IF documents = <<>> \/ ~up \/ (MongoDbClosed(s) /\ e.db_bool_raises)
    THEN MongoRes(s, m, coll, TRUE)
    ELSE MongoRes(s, m, coll \o documents, FALSE)

\* `if isinstance(doc, dict) and 'created_at' not in doc:
\*      doc['created_at'] = datetime.now()`, for each document, at time t.
StampCreatedAt(documents, t) ==
    [i \in DOMAIN documents |->
        IF "created_at" \in DOMAIN documents[i]
        THEN documents[i]
        ELSE [f \in DOMAIN documents[i] \cup {"created_at"} |->
                 IF f = "created_at" THEN t ELSE documents[i][f]]]

\* A stored document without its stamps.
Unstamped(doc) ==
    [f \in DOMAIN doc \ {"created_at", "updated_at"} |-> doc[f]]
UnstampedAll(documents) ==
    [i \in DOMAIN documents |-> Unstamped(documents[i])]

\* education_analysis copy: the guard is `if not self.mongo_db`, which
\* truth-tests the Database object once one is set.
ea_save_to_mongo(s, m, e, coll, documents, up, t) ==
    IF s.mongo_db # None /\ e.db_bool_raises
    THEN MongoRes(s, m, coll, TRUE)
    ELSE LET c == IF s.mongo_db = None
                  THEN ea_connect_mongo(s, m, e, up) ELSE Outcome(s, m, FALSE)
         IN InsertMany(c.self, c.made, e, coll, StampCreatedAt(documents, t),
                       up)

\* ProgrammingForAI-taba copy: the guard is `if self.mongo_db is None`.
taba_save_to_mongo(s, m, e, coll, documents, up, t) ==
    LET c == IF s.mongo_db = None
             THEN taba_connect_mongo(s, m, e, up) ELSE Outcome(s, m, FALSE)
    IN IF c.raised THEN MongoRes(c.self, c.made, coll, TRUE)
       ELSE InsertMany(c.self, c.made, e, coll, StampCreatedAt(documents, t),
                       up)

save_to_mongo(c, s, m, e, coll, documents, up, t) ==
    IF c = "ea" THEN ea_save_to_mongo(s, m, e, coll, documents, up, t)
    ELSE taba_save_to_mongo(s, m, e, coll, documents, up, t)

\* A fresh database: neither table exists.
EmptyDatabase == [t \in Tables |-> [exists |-> FALSE, rows |-> <<>>]]

WithinObjects(m) ==
    m.engine <= MaxObjects /\ m.conn <= MaxObjects /\ m.client <= MaxObjects

\* ---------------------------------------------------------------- actions
\* A manager just constructed.
\* The notebook function not called, no frame under cleaning.
NotCollecting == [pc |-> "idle"]
NoFrame == [columns |-> {}, numeric |-> <<>>, categorical |-> <<>>]
\* self.cache_dir holds one file per dataset; none is written yet.
CacheFiles == {"education_investment.csv", "economic_indicators.csv",
               "education_policies.json"}
NoFiles == [f \in CacheFiles |-> Null]

InitManager ==
    /\ copy \in Copies
    /\ env \in Envs
    /\ self = DatabaseManager__init__(copy, env)
    /\ made = NoObjects
    /\ last = Idle
    /\ nb = NotCollecting
    /\ frame = NoFrame
    /\ cache = NoFiles
    /\ now = 0

\* A manager just constructed on fresh stores.
Init ==
    /\ InitManager
    /\ db = EmptyDatabase
    /\ mongo = <<>>

ConnectPostgres ==
    \E up \in BOOLEAN :
        LET r == connect_postgres(copy, self, made, env, up) IN
        /\ WithinObjects(r.made)
        /\ self' = r.self
        /\ made' = r.made
        /\ last' = [op |-> "connect_postgres", raised |-> r.raised,
                    before |-> self, made_before |-> made, up |-> up]
        /\ UNCHANGED <<nb, frame, copy, env, db, mongo, cache, now>>

ConnectMongo ==
    \E up \in BOOLEAN :
        LET r == connect_mongo(copy, self, made, env, up) IN
        /\ WithinObjects(r.made)
        /\ self' = r.self
        /\ made' = r.made
        /\ last' = [op |-> "connect_mongo", raised |-> r.raised,
                    before |-> self, made_before |-> made, up |-> up]
        /\ UNCHANGED <<nb, frame, copy, env, db, mongo, cache, now>>

CloseConnections ==
    /\ copy \in {"ea", "taba"}
    /\ self' = close_connections(copy, self)
    /\ last' = [op |-> "close_connections", raised |-> FALSE]
    /\ UNCHANGED <<nb, frame, copy, env, made, db, mongo, cache, now>>

NextConn == ConnectPostgres \/ ConnectMongo \/ CloseConnections

SpecConn == Init /\ [][NextConn]_vars

\* -------------------------------------------------- relational-store runs
\* The relational operations are those of the ea and taba copies.
HasRelationalOps == copy \in {"ea", "taba"}

\* A call on the database, with its outcome recorded for the caller.
Called(op, t, data, batch_size, up, r) ==
    /\ WithinObjects(r.made)
    /\ TotalRows(r.db) <= MaxRows
    /\ self' = r.self
    /\ made' = r.made
    /\ db' = r.db
    /\ last' = [op |-> op, raised |-> r.raised, table |-> t, data |-> data,
                batch_size |-> batch_size, up |-> up, before |-> db,
                ret |-> r.ret]
    /\ UNCHANGED <<nb, frame, copy, env, mongo, cache, now>>

InsertEducationData ==
    /\ HasRelationalOps
    /\ \E up \in BOOLEAN, fail_at \in 0..1 :
           \E data \in FramesFor(copy, "education_data") :
               LET r == insert_data(copy, self, made, env, db,
                                    "education_data", data, up, fail_at) IN
               Called("insert_education_data", "education_data", data,
                      DefaultBatchSize, up, r)

InsertEconomicData ==
    /\ HasRelationalOps
    /\ \E up \in BOOLEAN, fail_at \in 0..1 :
           \E data \in FramesFor(copy, "economic_data") :
               LET r == insert_data(copy, self, made, env, db,
                                    "economic_data", data, up, fail_at) IN
               Called("insert_economic_data", "economic_data", data,
                      DefaultBatchSize, up, r)

GetEducationData ==
    /\ HasRelationalOps
    /\ \E up \in BOOLEAN :
           LET r == get_education_data(copy, self, made, env, db, up) IN
           Called("get_education_data", "education_data", <<>>, 0, up, r)

GetEconomicData ==
    /\ HasRelationalOps
    /\ \E up \in BOOLEAN :
           LET r == get_economic_data(copy, self, made, env, db, up) IN
           Called("get_economic_data", "economic_data", <<>>, 0, up, r)

CreateTables ==
    /\ HasRelationalOps
    /\ \E up \in BOOLEAN :
           LET r == create_tables(copy, self, made, env, db, up) IN
           Called("create_tables", "education_data", <<>>, 0, up, r)

\* The contents earlier runs can have left in the database: a table that
\* does not exist holds no rows.
Databases ==
    {d \in [Tables -> [exists : BOOLEAN, rows : SeqsUpTo(Rows, MaxRows)]] :
        /\ TotalRows(d) <= MaxRows
        /\ \A t \in Tables : ~d[t].exists => d[t].rows = <<>>}

\* A manager of the ea or taba copy, constructed on a database that earlier
\* runs have written; the MongoDB settings play no part.
InitPg ==
    /\ InitManager
    /\ copy \in {"ea", "taba"}
    /\ env.mongo_cfg /\ env.db_bool_raises
    /\ db \in Databases
    /\ mongo = <<>>

NextPg ==
    \/ CreateTables
    \/ InsertEducationData
    \/ InsertEconomicData
    \/ GetEducationData
    \/ GetEconomicData

SpecPg == InitPg /\ [][NextPg]_vars

\* Schema creation and the queries, on whatever earlier runs have stored.
NextTables ==
    \/ CreateTables
    \/ GetEducationData
    \/ GetEconomicData

SpecTables == InitPg /\ [][NextTables]_vars

\* ------------------------------------------------------------- save runs
SaveToMongo ==
    \E up \in BOOLEAN, documents \in DocLists :
        LET r == save_to_mongo(copy, self, made, env, mongo, documents, up,
                               now) IN
        /\ WithinObjects(r.made)
        /\ Len(r.mongo) <= MaxDocs
        /\ self' = r.self
        /\ made' = r.made
        /\ mongo' = r.mongo
        /\ last' = [op |-> "save_to_mongo", raised |-> r.raised,
                    table |-> "collection", data |-> documents,
                    batch_size |-> 0, up |-> up, before |-> mongo,
                    ret |-> <<>>]
        /\ UNCHANGED <<nb, frame, copy, env, db, cache, now>>

\* save_to_postgres of a long frame into economic_data.
SaveEconomicData ==
    /\ HasRelationalOps
    /\ \E up \in BOOLEAN, fail_at \in 0..1, data \in LongFrames :
           LET r == save_to_postgres(copy, self, made, env, db,
                                     "economic_data", data, DefaultBatchSize,
                                     up, fail_at) IN
           Called("save_to_postgres", "economic_data", data,
                  DefaultBatchSize, up, r)

\* A manager of the ea or taba copy with both stores configured.
InitSave ==
    /\ Init
    /\ copy \in {"ea", "taba"}
    /\ env.pg_cfg /\ env.mongo_cfg

NextSave ==
    \/ CreateTables
    \/ SaveEconomicData
    \/ SaveToMongo

SpecSave == InitSave /\ [][NextSave]_vars

\* ------------------------------------------------------- connection claims
PostgresConnected(s) == s.pg_conn # None \/ s.sqlite_conn # None
MongoConnected(s) == s.mongo_client # None /\ s.mongo_db # None

\* C4: connect is idempotent for each store: connect_postgres or
\* connect_mongo on a manager that is already connected leaves its
\* connection state unchanged and creates no second engine, connection or
\* client.
C4_ConnectIdempotent ==
    /\ (last.op = "connect_postgres" /\ PostgresConnected(last.before))
          => (self = last.before /\ made = last.made_before)
    /\ (last.op = "connect_mongo" /\ MongoConnected(last.before))
          => (self = last.before /\ made = last.made_before)

\* A connect that cannot succeed: a required variable is unset or the
\* server refuses, and the call has to open a connection.
PostgresCannotConnect ==
    /\ last.op = "connect_postgres"
    /\ ~self.use_sqlite
    /\ last.before.pg_conn = None
    /\ (~env.pg_cfg \/ ~last.up)

MongoCannotConnect ==
    /\ last.op = "connect_mongo"
    /\ (~env.mongo_cfg \/ ~last.up)

\* C5: a connect that cannot succeed (a required configuration variable
\* unset included) raises to the caller and leaves the manager
\* disconnected: pg_engine and pg_conn are None after a failed
\* connect_postgres, mongo_client and mongo_db are None after a failed
\* connect_mongo (ea and taba copies).
C5_FailedConnectLeavesDisconnected ==
    copy \in {"ea", "taba"} =>
        /\ PostgresCannotConnect
              => (last.raised /\ self.pg_engine = None /\ self.pg_conn = None)
        /\ MongoCannotConnect
              => (last.raised /\ self.mongo_client = None
                              /\ self.mongo_db = None)

\* ------------------------------------------------------------ batch runs
\* save_to_postgres of the education_analysis copy on frames long enough
\* to need several batches.
BatchFrames == SeqsUpTo(Rows, MaxBatchRows)
BatchSizes == 1 .. (MaxBatchRows + 1)
\* The frames that still fit a table holding the given rows.
BatchFramesFitting(rows) ==
    {f \in BatchFrames : Len(rows) + Len(f) <= MaxBatchRows}

SaveBatches ==
    /\ copy = "ea"
    /\ ~last.raised      \* the exception of a failed save ends the script
    /\ \E t \in {"economic_data"}, batch_size \in BatchSizes,
          up \in BOOLEAN :
         \E fail_at \in (IF up THEN 0..2 ELSE {0}),
            data \in BatchFramesFitting(db[t].rows) :
           LET r == ea_save_to_postgres(self, made, env, db, t, data,
                                        batch_size, up, fail_at) IN
           /\ WithinObjects(r.made)
           /\ self' = r.self
           /\ made' = r.made
           /\ db' = r.db
           /\ last' = [op |-> "save_batches", raised |-> r.raised,
                       table |-> t, data |-> data,
                       batch_size |-> batch_size, before |-> db,
                       batches |-> r.batches]
           /\ UNCHANGED <<nb, frame, copy, env, mongo, cache, now>>

InitBatch ==
    /\ Init
    /\ copy = "ea"
    /\ env.pg_cfg /\ env.mongo_cfg /\ env.db_bool_raises

NextBatch == SaveBatches

SpecBatch == InitBatch /\ [][NextBatch]_vars

\* --------------------------------- collect_and_store_education_data runs
\* src/education_analysis_notebook.py.  datasets = {...}: the model keeps
\* the first two of the four metrics.
Metrics == <<"education_investment", "student_teacher_ratio">>

\* df_processed after dropna(subset=['value']): the records of one fetch.
\* Several rows of a Eurostat table share a (country, year), one per unit
\* or level.
FetchedRecords == [country : Countries, year : YearCols, value : {Some(1)}]
Fetched == SeqsUpTo(FetchedRecords, MaxRecords)

\* psycopg2 connection: None (get_postgres_connection failed), open, or
\* closed (the server or the network dropped it).
PgConns == {"none", "open", "closed"}

\* What execute_values meets: the statement runs, the server rejects it,
\* or the connection drops while it runs.
PgOutcomes == {"ok", "sql_error", "conn_lost"}

RowKey(r) == <<r.country, r.year, r.metric>>
DocKey(r) == <<r.country, r.year>>

\* The tuple (country, year, metric, value) built for each record.
ValuesOf(metric, recs) ==
    [k \in 1..Len(recs) |->
        [country |-> recs[k].country, year |-> recs[k].year,
         metric |-> metric, value |-> recs[k].value]]

\* Two tuples of one INSERT carry the same (country, year, metric_name):
\* PostgreSQL rejects the statement (ON CONFLICT DO UPDATE cannot affect a
\* row a second time).
SameKeyTwice(values) ==
    \E i, j \in 1..Len(values) : i < j /\ RowKey(values[i]) = RowKey(values[j])

\* INSERT ... ON CONFLICT (country, year, metric_name) DO UPDATE SET
\* metric_value = EXCLUDED.metric_value
OnConflictUpdate(table, values) ==
    {r \in table : \A k \in 1..Len(values) : RowKey(values[k]) # RowKey(r)}
        \cup Range(values)

\* The `if pg_conn is not None:` block.  result is what became of the
\* insert; escaped says an exception left the block, which happens when
\* the handler's pg_conn.rollback() itself raises on a closed connection.
StoreInPostgres(conn, table, metric, recs, outcome) ==
    LET values == ValuesOf(metric, recs) IN
    IF conn = "none"
    THEN [conn |-> conn, table |-> table, result |-> "skipped",
          rolled_back |-> FALSE, escaped |-> FALSE]
    ELSE IF conn = "closed"
    THEN \* pg_conn.cursor() raises InterfaceError, and so does rollback()
         [conn |-> conn, table |-> table, result |-> "failed",
          rolled_back |-> FALSE, escaped |-> TRUE]
    ELSE IF values = <<>>
    THEN [conn |-> conn, table |-> table, result |-> "nothing",
          rolled_back |-> FALSE, escaped |-> FALSE]
    ELSE IF outcome = "conn_lost"
    THEN [conn |-> "closed", table |-> table, result |-> "failed",
          rolled_back |-> FALSE, escaped |-> TRUE]
    ELSE IF outcome = "sql_error" \/ SameKeyTwice(values)
    THEN [conn |-> conn, table |-> table, result |-> "failed",
          rolled_back |-> TRUE, escaped |-> FALSE]
    ELSE [conn |-> conn, table |-> OnConflictUpdate(table, values),
          result |-> "stored", rolled_back |-> FALSE, escaped |-> FALSE]

\* collection.update_one({'country', 'year'}, {'$set': mongo_doc},
\* upsert=True)
UpdateOneUpsert(coll, doc) ==
    {x \in coll : DocKey(x) # DocKey(doc)} \cup {doc}

RECURSIVE UpsertRecords(_, _, _)
\* The first k passes of `for record in records`.
UpsertRecords(coll, recs, k) ==
    IF k = 0 THEN coll
    ELSE UpdateOneUpsert(UpsertRecords(coll, recs, k - 1), recs[k])

\* The `if mongo_db is not None:` block; update_one number fail_at (0 for
\* none) raises a pymongo error, which the loop's handler does not catch.
StoreInMongo(given, coll, recs, fail_at) ==
    IF ~given
    THEN [coll |-> coll, result |-> "skipped", upserts |-> 0]
    ELSE IF fail_at \in 1..Len(recs)
    THEN [coll |-> UpsertRecords(coll, recs, fail_at - 1),
          result |-> "failed", upserts |-> fail_at - 1]
    ELSE [coll |-> UpsertRecords(coll, recs, Len(recs)),
          result |-> "stored", upserts |-> Len(recs)]

\* The outer handler: `if pg_conn is not None: pg_conn.rollback()`, then
\* continue; the rollback raises on a closed connection and the exception
\* leaves the function.
OuterHandlerRaises(conn) == conn = "closed"

\* One pass of `for metric, code in datasets.items()`.
CollectMetricPass(n, fetched, recs, outcome, fail_at) ==
    LET metric == Metrics[n.i]
        next == IF n.i = Len(Metrics) THEN "done" ELSE "running"
        after(conn, table, colls, raised) ==
            [n EXCEPT !.pg_conn = conn, !.raw_education_data = table,
                      !.collections = colls,
                      !.i = IF raised THEN @ ELSE @ + 1,
                      !.pc = IF raised THEN "raised" ELSE next]
        seen(pg, rolled_back, mg, upserts, raised) ==
            [op |-> "collect_metric", metric |-> metric,
             fetched |-> fetched, records |-> IF fetched THEN recs ELSE <<>>,
             pg |-> pg, rolled_back |-> rolled_back, mongo |-> mg,
             upserts |-> upserts, raised |-> raised]
    IN
    IF ~fetched
    THEN \* eurostat.get_data_df raised
         LET raised == OuterHandlerRaises(n.pg_conn) IN
         [nb |-> after(n.pg_conn, n.raw_education_data, n.collections,
                       raised),
          last |-> seen("not_reached", FALSE, "not_reached", 0, raised)]
    ELSE
    LET p == StoreInPostgres(n.pg_conn, n.raw_education_data, metric, recs,
                             outcome) IN
    IF p.escaped
    THEN [nb |-> after(p.conn, p.table, n.collections,
                       OuterHandlerRaises(p.conn)),
          last |-> seen(p.result, p.rolled_back, "not_reached", 0,
                        OuterHandlerRaises(p.conn))]
    ELSE
    LET m == StoreInMongo(n.mongo_db, n.collections[metric], recs, fail_at)
        colls == [n.collections EXCEPT ![metric] = m.coll]
        raised == m.result = "failed" /\ OuterHandlerRaises(p.conn)
    IN [nb |-> after(p.conn, p.table, colls, raised),
        last |-> seen(p.result, p.rolled_back, m.result, m.upserts, raised)]

\* run_education_analysis hands the function the connections it obtained;
\* either may be None.
StartCollect ==
    /\ nb.pc \in {"idle", "done"}
    /\ nb.runs < MaxRuns
    /\ nb' = [nb EXCEPT !.pc = "running", !.i = 1, !.runs = @ + 1]
    /\ last' = [op |-> "collect_and_store_education_data", raised |-> FALSE]
    /\ UNCHANGED <<copy, env, self, made, mongo, db, frame, cache, now>>

CollectMetric ==
    /\ nb.pc = "running"
    /\ \E fetched \in BOOLEAN :
         \E recs \in (IF fetched THEN Fetched ELSE {<<>>}),
            outcome \in (IF fetched THEN PgOutcomes ELSE {"ok"}),
            fail_at \in (IF fetched THEN 0..MaxRecords ELSE {0}) :
           LET r == CollectMetricPass(nb, fetched, recs, outcome, fail_at)
           IN /\ nb' = r.nb
              /\ last' = r.last
    /\ UNCHANGED <<copy, env, self, made, mongo, db, frame, cache, now>>

InitCollect ==
    /\ copy = "ea"
    /\ env = [testing_sqlite |-> FALSE, pg_cfg |-> TRUE, mongo_cfg |-> TRUE,
              db_bool_raises |-> TRUE]
    /\ self = DatabaseManager__init__(copy, env)
    /\ made = NoObjects
    /\ db = EmptyDatabase
    /\ mongo = <<>>
    /\ frame = NoFrame
    /\ cache = NoFiles
    /\ now = 0
    /\ last = Idle
    /\ \E conn \in {"none", "open"}, given \in BOOLEAN :
          nb = [pc |-> "idle", i |-> 1, runs |-> 0, pg_conn |-> conn,
                mongo_db |-> given, raw_education_data |-> {},
                collections |-> [m \in Range(Metrics) |-> {}]]

NextCollect == StartCollect \/ CollectMetric

SpecCollect == InitCollect /\ [][NextCollect]_vars

\* ------------------------------------------------------------ DataCleaner
\* src/ProgrammingForAI-taba/economic_analysis/src/data/data_cleaner.py.
\* A frame has at most one numeric and one categorical column.  Numbers are
\* exact: a number is an integer count of sixteenths of 0.0001, the unit
\* round(4) keeps, so that medians (halves), quartiles (quarters of those)
\* and 1.5 * IQR stay integers.
UnitsPerTick == 16
Ticks(k) == Some(k * UnitsPerTick)

\* Values of the input frames, in units of 0.0001.
NumericInputs == {Null, Ticks(0), Ticks(6)}
Labels == <<"a", "b">>
CategoricalInputs == {Null} \cup {Some(l) : l \in Range(Labels)}

\* The frames of n rows: with both columns, or the numeric one alone.
FrameOf(num, cat, with_cat) ==
    [columns |-> IF with_cat THEN {"numeric", "categorical"}
                 ELSE {"numeric"},
     numeric |-> num, categorical |-> IF with_cat THEN cat ELSE <<>>]

\* Series.dropna()
NonNull(col) == SelectSeq(col, LAMBDA v : v # Null)

RECURSIVE SortValues(_)
\* The non-null numbers of a column in ascending order.
SortValues(col) ==
    IF col = <<>> THEN <<>>
    ELSE LET rest == SortValues(Tail(col))
             x == Head(col)[1]
             below == SelectSeq(rest, LAMBDA y : y <= x)
             above == SelectSeq(rest, LAMBDA y : y > x)
         IN below \o <<x>> \o above

\* Series.median(): NaN for a column without a value.
Median(col) ==
    LET s == SortValues(NonNull(col))
        n == Len(s)
    IN IF n = 0 THEN Null
       ELSE IF n % 2 = 1 THEN Some(s[(n + 1) \div 2])
       ELSE Some((s[n \div 2] + s[n \div 2 + 1]) \div 2)

CountOf(col, v) == Len(SelectSeq(col, LAMBDA x : x = v))

\* DataFrame.mode().iloc[0] for one column: the most frequent value, the
\* smallest of them on a tie; no row at all for a column without a value.
Mode(col) ==
    LET most == {l \in Range(Labels) :
                    /\ CountOf(col, Some(l)) > 0
                    /\ \A m \in Range(Labels) :
                          CountOf(col, Some(m)) <= CountOf(col, Some(l))}
    IN IF most = {} THEN Null
       ELSE Some(Labels[CHOOSE i \in 1..Len(Labels) :
                           /\ Labels[i] \in most
                           /\ \A j \in 1..(i - 1) : Labels[j] \notin most])

\* Series.fillna(value); filling with NaN fills nothing.
FillNa(col, value) ==
    [i \in 1..Len(col) |-> IF col[i] = Null THEN value ELSE col[i]]

\* df[categorical_columns].mode() has no row: .iloc[0] raises IndexError.
ModeFrameEmpty(df) ==
    \/ "categorical" \notin df.columns
    \/ Mode(df.categorical) = Null

\* A variant that fills a copy and hands the untouched frame back when the
\* mode lookup fails.
_handle_missing_values_on_copy(df) ==
    LET filled == [df EXCEPT !.numeric = FillNa(@, Median(@))] IN
    IF ModeFrameEmpty(filled) THEN df
    ELSE [filled EXCEPT !.categorical = FillNa(@, Mode(@))]

\* The numeric columns are filled in place first; when the mode lookup then
\* raises, the handler returns df with the numeric fill already made.
_handle_missing_values(df) ==
    LET filled == [df EXCEPT !.numeric = FillNa(@, Median(@))] IN
    IF ModeFrameEmpty(filled) THEN filled
    ELSE [filled EXCEPT !.categorical = FillNa(@, Mode(@))]

\* Series.quantile(q / 4), linear interpolation at position (n - 1) * q / 4
\* of the sorted values.
Quantile(col, q) ==
    LET s == SortValues(NonNull(col))
        p == (Len(s) - 1) * q
        i == p \div 4 + 1
        f == p % 4
    IN IF f = 0 THEN s[i] ELSE s[i] + (f * (s[i + 1] - s[i])) \div 4

\* lower_bound = Q1 - 1.5 * IQR, upper_bound = Q3 + 1.5 * IQR
IqrBounds(col) ==
    LET Q1 == Quantile(col, 1)
        Q3 == Quantile(col, 3)
        IQR == Q3 - Q1
    IN [lower |-> Q1 - (3 * IQR) \div 2, upper |-> Q3 + (3 * IQR) \div 2]

\* Series.clip(lower, upper)
Clip(col, lower, upper) ==
    [i \in 1..Len(col) |->
        IF col[i] = Null THEN Null
        ELSE IF col[i][1] < lower THEN Some(lower)
        ELSE IF col[i][1] > upper THEN Some(upper)
        ELSE col[i]]

\* A variant that clips from below only.
_handle_outliers_lower_only(df) ==
    IF NonNull(df.numeric) = <<>> THEN df
    ELSE LET b == IqrBounds(df.numeric) IN
         [df EXCEPT !.numeric =
             [i \in 1..Len(@) |->
                 IF @[i] # Null /\ @[i][1] < b.lower THEN Some(b.lower)
                 ELSE @[i]]]

\* A column without a value has NaN quartiles and clip leaves it alone.
_handle_outliers(df) ==
    IF NonNull(df.numeric) = <<>> THEN df
    ELSE LET b == IqrBounds(df.numeric) IN
         [df EXCEPT !.numeric = Clip(@, b.lower, b.upper)]

\* round(x, 4): to the nearest multiple of 0.0001, a tie to the even one.
Round4(x) ==
    LET q == x \div UnitsPerTick
        r == x % UnitsPerTick
        half == UnitsPerTick \div 2
    IN IF r < half THEN q * UnitsPerTick
       ELSE IF r > half THEN (q + 1) * UnitsPerTick
       ELSE IF q % 2 = 0 THEN q * UnitsPerTick
       ELSE (q + 1) * UnitsPerTick

\* df[numeric_columns].round(4)
_standardize_formats(df) ==
    [df EXCEPT !.numeric =
        [i \in 1..Len(@) |->
            IF @[i] = Null THEN Null ELSE Some(Round4(@[i][1]))]]

clean_data(df) ==
    _standardize_formats(_handle_outliers(_handle_missing_values(df)))

\* cleaner.clean_data(frame): the frame is changed in place and returned.
CleanData ==
    /\ "numeric" \in frame.columns
    /\ (IF last.op = "clean_data" THEN last.passes ELSE 0) < MaxPasses
    /\ frame' = clean_data(frame)
    /\ last' = [op |-> "clean_data", raised |-> FALSE, input |-> frame,
                passes |-> (IF last.op = "clean_data" THEN last.passes
                            ELSE 0) + 1]
    /\ UNCHANGED <<copy, env, self, made, mongo, db, nb, cache, now>>

InitClean ==
    /\ copy = "taba"
    /\ env = [testing_sqlite |-> FALSE, pg_cfg |-> TRUE, mongo_cfg |-> TRUE,
              db_bool_raises |-> TRUE]
    /\ self = DatabaseManager__init__(copy, env)
    /\ made = NoObjects
    /\ db = EmptyDatabase
    /\ mongo = <<>>
    /\ nb = NotCollecting
    /\ last = Idle
    /\ cache = NoFiles
    /\ now = 0
    /\ \E n \in 0..MaxCleanRows :
          \E num \in [1..n -> NumericInputs] :
              \/ frame = FrameOf(num, <<>>, FALSE)
              \/ \E cat \in [1..n -> CategoricalInputs] :
                     frame = FrameOf(num, cat, TRUE)

NextClean == CleanData

SpecClean == InitClean /\ [][NextClean]_vars

\* ------------------------------------------- education-analysis DataCleaner
\* src/education_analysis/src/data_processing/data_cleaner.py.  A frame is
\* its rows in order; a row has a country (geo_time_period / country_code),
\* a year and one numeric column (value / gdp_growth).  A year that
\* pd.to_numeric cannot read is Null.
EduValues == {Null, Ticks(0), Ticks(1)}
EduRowKinds ==
    [country : Countries, year : {Some(y) : y \in YearCols},
     value : EduValues]
        \cup {[country |-> c, year |-> Null, value |-> Ticks(0)] :
                 c \in Countries}

ValueColumn(rows) == [i \in 1..Len(rows) |-> rows[i].value]

\* Q1 - k * IQR and Q3 + k * IQR, k given as twice_k / 2.
OutlierBounds(col, twice_k) ==
    LET Q1 == Quantile(col, 1)
        Q3 == Quantile(col, 3)
        IQR == Q3 - Q1
    IN [lower |-> Q1 - (twice_k * IQR) \div 2,
        upper |-> Q3 + (twice_k * IQR) \div 2]

\* A variant of the row filter with strict comparisons.
KeepWithinBounds_strict(rows, twice_k) ==
    IF NonNull(ValueColumn(rows)) = <<>> THEN <<>>
    ELSE LET b == OutlierBounds(ValueColumn(rows), twice_k) IN
         SelectSeq(rows, LAMBDA r : /\ r.value # Null
                                    /\ r.value[1] > b.lower
                                    /\ r.value[1] < b.upper)

\* cleaned_data[(col >= lower_bound) & (col <= upper_bound)]: the rows
\* whose value lies outside are removed, and so is a row whose value is
\* NaN, every comparison with NaN (a NaN bound included) being False.
KeepWithinBounds(rows, twice_k) ==
    IF NonNull(ValueColumn(rows)) = <<>> THEN <<>>
    ELSE LET b == OutlierBounds(ValueColumn(rows), twice_k) IN
         SelectSeq(rows, LAMBDA r : /\ r.value # Null
                                    /\ r.value[1] >= b.lower
                                    /\ r.value[1] <= b.upper)

\* pd.to_numeric(year, errors='coerce'), dropna(subset=['year']),
\* astype(int), then sort_values(['year', country]).
YearsToIntSorted(rows) ==
    LET numeric == SelectSeq(rows, LAMBDA r : r.year # Null) IN
    OrderBy([i \in 1..Len(numeric) |->
                [numeric[i] EXCEPT !.year = @[1]]])

\* lower_bound = Q1 - 3 * IQR
clean_education_data(data) ==
    LET with_value == SelectSeq(data, LAMBDA r : r.value # Null) IN
    YearsToIntSorted(KeepWithinBounds(with_value, 6))

\* lower_bound = Q1 - 1.5 * IQR; dropna(how='all') removes no row, the
\* country being set.
clean_economic_data(data) ==
    YearsToIntSorted(KeepWithinBounds(data, 3))

CleanEducationData ==
    /\ frame.columns = {"country", "year", "value"}
    /\ last' = [op |-> "clean_education_data", raised |-> FALSE,
                output |-> clean_education_data(frame.rows)]
    /\ UNCHANGED <<copy, env, self, made, mongo, db, nb, frame, cache, now>>

CleanEconomicData ==
    /\ frame.columns = {"country", "year", "value"}
    /\ last' = [op |-> "clean_economic_data", raised |-> FALSE,
                output |-> clean_economic_data(frame.rows)]
    /\ UNCHANGED <<copy, env, self, made, mongo, db, nb, frame, cache, now>>

InitEdu ==
    /\ copy = "ea"
    /\ env = [testing_sqlite |-> FALSE, pg_cfg |-> TRUE, mongo_cfg |-> TRUE,
              db_bool_raises |-> TRUE]
    /\ self = DatabaseManager__init__(copy, env)
    /\ made = NoObjects
    /\ db = EmptyDatabase
    /\ mongo = <<>>
    /\ nb = NotCollecting
    /\ last = Idle
    /\ cache = NoFiles
    /\ now = 0
    /\ \E n \in 0..MaxEduRows :
          \E rows \in [1..n -> EduRowKinds] :
              frame = [columns |-> {"country", "year", "value"},
                       rows |-> rows]

NextEdu == CleanEducationData \/ CleanEconomicData

SpecEdu == InitEdu /\ [][NextEdu]_vars

\* ------------------------------------------------------------ save claims
KeyOf(r) == <<r.country, r.year>>

\* The stored records that carry the key k.
WithKey(records, k) == SelectSeq(records, LAMBDA r : KeyOf(r) = k)

\* The last call saved one record whose key the store already held.
SavedAgain(op) ==
    /\ last.op = op
    /\ ~last.raised
    /\ Len(last.data) = 1
    /\ WithKey(IF op = "save_to_mongo" THEN last.before
               ELSE last.before[last.table].rows,
               KeyOf(last.data[1])) # <<>>

\* C1: for both stores (save_to_postgres and save_to_mongo), saving a
\* record with the same (country, year) key twice leaves exactly one stored
\* record for that key, and that record holds the values of the second save.
C1_UpsertIdempotence ==
    /\ SavedAgain("save_to_postgres")
          => WithKey(db[last.table].rows, KeyOf(last.data[1])) = last.data
    /\ SavedAgain("save_to_mongo")
          => UnstampedAll(WithKey(mongo, KeyOf(last.data[1]))) = last.data

\* ------------------------------------------------- relational-store claims
\* The stored cells a frame passed to an insert stands for: the taba
\* insert_education_data takes the wide frame, one cell per year column.
CellsOf(t, data) ==
    IF copy = "taba" /\ t = "education_data" THEN Melt(data) ELSE data

\* What the getter of table t returns when called now, the server up.
GetterReturns(t) ==
    IF t = "education_data"
    THEN get_education_data(copy, self, made, env, db, TRUE).ret
    ELSE get_economic_data(copy, self, made, env, db, TRUE).ret

\* The last call was an insert that returned, on a connected manager whose
\* tables were created, with the server reachable.
InsertReturned ==
    /\ last.op \in {"insert_education_data", "insert_economic_data"}
    /\ ~last.raised
    /\ last.up
    /\ PostgresConnected(self)
    /\ \A t \in Tables : last.before[t].exists

\* C2: on a connected DatabaseManager whose tables were created, every row
\* passed to insert_education_data / insert_economic_data is afterwards
\* returned by get_education_data / get_economic_data with the same field
\* values (rows with a value, which the education query selects).
C2_InsertedRowsAreReturned ==
    InsertReturned =>
        \A r \in Range(CellsOf(last.table, last.data)) :
            r.value # Null => r \in Range(GetterReturns(last.table))

CreateTablesReturned == last.op = "create_tables" /\ ~last.raised

RECURSIVE Concat(_)
Concat(ss) == IF ss = <<>> THEN <<>> ELSE Head(ss) \o Concat(Tail(ss))

BatchesSaved == last.op = "save_batches" /\ ~last.raised

\* C7: for every frame of n rows and every batch_size >= 1, a
\* save_to_postgres that returns has appended the rows in ceil(n /
\* batch_size) consecutive batches of at most batch_size rows each: the
\* batches joined in order are the frame (every row once, in input order),
\* the table holds its earlier rows followed by the frame, and no batch is
\* written when n = 0.
C7_BatchedAppend ==
    BatchesSaved =>
        LET n == Len(last.data)
            b == last.batch_size
            k == Len(last.batches)
        IN /\ (k - 1) * b < n /\ n <= k * b
           /\ \A i \in 1..k : Len(last.batches[i]) \in 1..b
           /\ Concat(last.batches) = last.data
           /\ db[last.table].rows
                  = last.before[last.table].rows \o last.data
           /\ n = 0 => last.batches = <<>>

\* C7 witness: a frame of three different rows saved with batch_size 2,
\* the last batch a partial one.
C7_Witness ==
    /\ BatchesSaved
    /\ Len(last.data) = 3
    /\ Cardinality(Range(last.data)) = 3
    /\ last.batch_size = 2

\* -------------------------------------------------------- collect claims
\* The last pass met a failed PostgreSQL insert, was handed a MongoDB
\* database, and MongoDB itself accepted every update it was sent.
PgInsertFailed ==
    /\ last.op = "collect_metric"
    /\ last.pg = "failed"
    /\ nb.mongo_db
    /\ last.mongo # "failed"

\* No row of raw_education_data and no document of a collection is removed:
\* every key a store holds it still holds after the step.
NothingDeleted ==
    /\ \A r \in nb.raw_education_data :
          \E x \in nb'.raw_education_data : RowKey(x) = RowKey(r)
    /\ \A m \in Range(Metrics) :
          \A r \in nb.collections[m] :
              \E x \in nb'.collections[m] : DocKey(x) = DocKey(r)

\* C3: in collect_and_store_education_data the PostgreSQL write and the
\* MongoDB write of a metric are independent: when the PostgreSQL insert of
\* a metric fails it is rolled back and the MongoDB upserts of the same
\* metric are still performed (one per record), and no step removes a row
\* or document either store already held.
C3_StoresIndependent ==
    /\ [](PgInsertFailed =>
            /\ last.rolled_back
            /\ last.mongo = "stored"
            /\ last.upserts = Len(last.records)
            /\ \A k \in 1..Len(last.records) :
                  \E x \in nb.collections[last.metric] :
                      DocKey(x) = DocKey(last.records[k]))
    /\ [][nb.pc = "running" => NothingDeleted]_vars

\* -------------------------------------------------------- cleaner claims
Cleaned == last.op = "clean_data"

\* The numeric column as it was after imputation and before clipping.
Imputed == _handle_missing_values(last.input).numeric

\* C8: applying clean_data to a frame that clean_data already produced
\* changes no value: clean_data(clean_data(f)) = clean_data(f).
C8_CleanDataIdempotent ==
    (Cleaned /\ last.passes >= 2) => frame = last.input

\* C9 as stated: after clean_data every value of the numeric column lies
\* within [Q1 - 1.5*IQR, Q3 + 1.5*IQR], the quartiles taken on the column
\* after imputation and before clipping.
C9_WithinIqrBounds ==
    (Cleaned /\ NonNull(Imputed) # <<>>) =>
        \A i \in 1..Len(frame.numeric) :
            /\ frame.numeric[i][1] >= IqrBounds(Imputed).lower
            /\ frame.numeric[i][1] <= IqrBounds(Imputed).upper

\* C9 amended: after clean_data every value of the numeric column is the
\* rounding to 4 decimals of a value within [Q1 - 1.5*IQR, Q3 + 1.5*IQR]
\* (quartiles of the column after imputation, before clipping), and so
\* lies within 0.00005 of that interval.
C9_WithinIqrBoundsRounded ==
    (Cleaned /\ NonNull(Imputed) # <<>>) =>
        LET b == IqrBounds(Imputed)
            half == UnitsPerTick \div 2
        IN \A i \in 1..Len(frame.numeric) :
              /\ \E c \in b.lower .. b.upper :
                    frame.numeric[i][1] = Round4(c)
              /\ frame.numeric[i][1] >= b.lower - half
              /\ frame.numeric[i][1] <= b.upper + half

\* C9 witness: a value was clipped to the upper bound and the rounding
\* then moved it above that bound.
C9_Witness ==
    /\ Cleaned
    /\ NonNull(Imputed) # <<>>
    /\ \E i \in 1..Len(frame.numeric) :
          /\ Imputed[i][1] > IqrBounds(Imputed).upper
          /\ frame.numeric[i][1] > IqrBounds(Imputed).upper

\* C10: after clean_data no null remains in a numeric column that had a
\* non-null value (its nulls hold the column's median, at the 4 decimals
\* the cleaner keeps) nor in a categorical column that had a non-null
\* value (its nulls hold the column's mode).
C10_NoNullsRemain ==
    Cleaned =>
        /\ NonNull(last.input.numeric) # <<>> =>
              \A i \in 1..Len(frame.numeric) :
                  /\ frame.numeric[i] # Null
                  /\ last.input.numeric[i] = Null =>
                        frame.numeric[i]
                            = Some(Round4(Median(last.input.numeric)[1]))
        /\ ("categorical" \in last.input.columns
              /\ NonNull(last.input.categorical) # <<>>) =>
              \A i \in 1..Len(frame.categorical) :
                  /\ frame.categorical[i] # Null
                  /\ last.input.categorical[i] = Null =>
                        frame.categorical[i] = Mode(last.input.categorical)

\* C10 witness: a frame without a categorical column, whose numeric column
\* held a null and a value, was cleaned.
C10_Witness ==
    /\ Cleaned
    /\ "categorical" \notin last.input.columns
    /\ Null \in Range(last.input.numeric)
    /\ NonNull(last.input.numeric) # <<>>

\* A cleaning step of the last clean_data raised: the mode lookup of
\* _handle_missing_values found no row (IndexError).
StepRaised == Cleaned /\ ModeFrameEmpty(last.input)

\* C11: clean_data never raises, and whenever a cleaning step raises, the
\* frame it returns equals the frame the caller passed in: no value has
\* been changed by the steps that ran before the failure.
C11_FailedCleanReturnsInput ==
    Cleaned =>
        /\ ~last.raised
        /\ StepRaised => frame = last.input

\* ------------------------------------------- education-cleaner claims
CountRows(rows, x) == Len(SelectSeq(rows, LAMBDA r : r = x))

\* The two frames hold the same rows, each as many times.
SameRows(a, b) ==
    /\ Len(a) = Len(b)
    /\ \A x \in Range(a) \cup Range(b) : CountRows(a, x) = CountRows(b, x)

\* The input rows of the last call that have a value and a numeric year,
\* the year as the integer the cleaners make of it.
RowsWithValue ==
    LET kept == SelectSeq(frame.rows,
                          LAMBDA r : r.value # Null /\ r.year # Null)
    IN [i \in 1..Len(kept) |-> [kept[i] EXCEPT !.year = @[1]]]

\* RowsWithValue with every value outside the bounds replaced by the
\* nearest bound (k = twice_k / 2, quartiles of the values present).
RowsClipped(twice_k) ==
    LET col == NonNull(ValueColumn(frame.rows))
        b == OutlierBounds(col, twice_k)
        clipped == Clip(ValueColumn(RowsWithValue), b.lower, b.upper)
    IN [i \in 1..Len(RowsWithValue) |->
           [RowsWithValue[i] EXCEPT !.value = clipped[i]]]

\* C12: no cleaner removes a row because its value is an outlier:
\* clean_data, clean_education_data and clean_economic_data keep every
\* input row that has a non-null numeric value and replace a value outside
\* the IQR bounds by the nearest bound.
C12_OutliersClippedNotRemoved ==
    /\ Cleaned => Len(frame.numeric) = Len(last.input.numeric)
    /\ last.op = "clean_education_data" =>
          SameRows(last.output, RowsClipped(6))
    /\ last.op = "clean_economic_data" =>
          SameRows(last.output, RowsClipped(3))

\* The frame cleaned last has numeric years only and every value it holds
\* lies within [Q1 - 3*IQR, Q3 + 3*IQR].
NoOutlierNoBadYear ==
    /\ \A i \in 1..Len(frame.rows) : frame.rows[i].year # Null
    /\ LET col == NonNull(ValueColumn(frame.rows)) IN
       col # <<>> =>
          \A i \in 1..Len(col) :
              /\ col[i][1] >= OutlierBounds(col, 6).lower
              /\ col[i][1] <= OutlierBounds(col, 6).upper

\* C13: for a frame whose non-null values all lie within
\* [Q1 - 3*IQR, Q3 + 3*IQR] and whose years are numeric,
\* clean_education_data returns exactly the rows with a non-null value:
\* the output has no null value and len(output) = len(input) minus the
\* number of rows whose value is null.
C13_OnlyNullRowsRemoved ==
    (last.op = "clean_education_data" /\ NoOutlierNoBadYear) =>
        /\ \A i \in 1..Len(last.output) : last.output[i].value # Null
        /\ Len(last.output)
              = Len(frame.rows)
                  - Len(SelectSeq(frame.rows, LAMBDA r : r.value = Null))
        /\ SameRows(last.output, RowsWithValue)

\* C13 witness: clean_education_data ran on such a frame that held a row
\* without a value and two rows with different values.
C13_Witness ==
    /\ last.op = "clean_education_data"
    /\ NoOutlierNoBadYear
    /\ \E i \in 1..Len(frame.rows) : frame.rows[i].value = Null
    /\ Cardinality(Range(NonNull(ValueColumn(frame.rows)))) = 2

\* ------------------------------------------------------ indicator fetchers
\* src/education_analysis/src/data_collection/eurostat_collector.py and its
\* copy under src/ProgrammingForAI-taba (the cache helpers and the two
\* frame fetchers are the same text), and
\* src/ProgrammingForAI-taba/economic_analysis/src/data/imf_processor.py.
\* Time is counted in ticks of half a day.
MaxTime == 3
MaxVersion == 2

\* self.cache_expiry = timedelta(days=1)
CacheExpiry == 2

\* What the external source serves at the time of a request: the data
\* changes from one release to the next; the table may or may not come
\* with a 'year' column after the rename.
SourceVersions == 1..MaxVersion
SourceTables == [rows : SourceVersions, year : BOOLEAN]

\* pd.DataFrame()
EmptyDataFrame == [columns |-> {}, rows |-> 0]

\* data.to_csv(cache_path, index=False): a datetime column is written as
\* text.
ToCsv(data) ==
    [kind |-> "csv", columns |-> data.columns, rows |-> data.rows,
     collected_at |-> data.collected_at.at, source |-> data.source]

\* pd.read_csv(cache_path): raises on a file that is not a table; the
\* collected_at column comes back as strings (no parse_dates).
ReadCsvRaises(content) == content.kind # "csv"
ReadCsv(content) ==
    [columns |-> content.columns, rows |-> content.rows,
     collected_at |-> [dtype |-> "object", at |-> content.collected_at],
     source |-> content.source]

\* json.dump(policies, f) / json.load(f)
JsonDump(docs) == [kind |-> "json", docs |-> docs]
JsonLoadRaises(content) == content.kind # "json"
JsonLoad(content) == content.docs

\* open(cache_file, 'w') followed by a failing dump: the file is left empty.
Truncated == [kind |-> "empty"]

FileAt(t, content) == Some([mtime |-> t, content |-> content])

\* A variant that still counts a file of exactly cache_expiry as fresh.
Fresh_inclusive(file, t) == t - file[1].mtime <= CacheExpiry

\* datetime.now() - mtime < self.cache_expiry
Fresh(file, t) == t - file[1].mtime < CacheExpiry

_get_cached_data(files, cache_file, t) ==
    IF /\ files[cache_file] # Null
       /\ Fresh(files[cache_file], t)
       /\ ~ReadCsvRaises(files[cache_file][1].content)
    THEN Some(ReadCsv(files[cache_file][1].content))
    ELSE Null

\* disk_ok = FALSE: to_csv raises before anything is written; the error is
\* logged and swallowed.
_save_to_cache(files, data, cache_file, t, disk_ok) ==
    IF disk_ok
    THEN [files EXCEPT ![cache_file] = FileAt(t, ToCsv(data))]
    ELSE files

\* What a fetch hands back: the returned value (Null when it raised),
\* whether the external source was called, and the cache directory.
Fetch(output, raised, called, files) ==
    [output |-> output, raised |-> raised, called |-> called,
     files |-> files]

\* answer: Null when eurostat.get_data_df raises, else the table it
\* returns.
get_education_investment_data(files, t, answer, disk_ok) ==
    LET cached_data == _get_cached_data(files, "education_investment.csv", t)
        data == [columns |-> {"index", "collected_at", "source"}
                             \cup (IF answer[1].year THEN {"year"} ELSE {}),
                 rows |-> answer[1].rows,
                 collected_at |-> [dtype |-> "datetime64", at |-> t],
                 source |-> "Eurostat"]
    IN  IF cached_data # Null
        THEN Fetch(cached_data, FALSE, FALSE, files)
        ELSE IF answer = Null
        THEN Fetch(Null, TRUE, TRUE, files)
        ELSE Fetch(Some(data), FALSE, TRUE,
                   _save_to_cache(files, data, "education_investment.csv",
                                  t, disk_ok))

\* self.WB_INDICATORS
WB_INDICATORS == {"gdp_growth", "employment_rate", "gdp_per_capita",
                  "industry_value"}

\* The indicators whose request answered with data: none, one, or all.
IndicatorAnswers == {{}, {"gdp_growth"}, WB_INDICATORS}

\* answered: the indicators whose wb.data.DataFrame call returned rows (the
\* others raised or came back empty and were skipped); rows: the release
\* served.
get_economic_indicators(files, t, answered, rows, disk_ok) ==
    LET cached_data == _get_cached_data(files, "economic_indicators.csv", t)
        result == [columns |-> {"country_code", "year", "collected_at",
                                "source"} \cup answered,
                   rows |-> rows,
                   collected_at |-> [dtype |-> "datetime64", at |-> t],
                   source |-> "World Bank"]
    IN  IF cached_data # Null
        THEN Fetch(cached_data, FALSE, FALSE, files)
        ELSE IF answered = {}
        THEN Fetch(Some(EmptyDataFrame), FALSE, TRUE, files)
        ELSE Fetch(Some(result), FALSE, TRUE,
                   _save_to_cache(files, result, "economic_indicators.csv",
                                  t, disk_ok))

\* The policy documents made from a release of the data, and `[]`.
Policies(rows) == [docs_of |-> rows]
NoPolicies == [docs_of |-> 0]

\* education_analysis copy: this module never imports json, so json.load
\* and json.dump raise NameError, which the handlers around them swallow;
\* open(cache_file, 'w') has emptied the file by then.
\* answer: Null when requests.get or raise_for_status raises.
ea_get_education_policies(files, t, answer, disk_ok) ==
    IF answer = Null
    THEN Fetch(Null, TRUE, TRUE, files)
    ELSE Fetch(Some(Policies(answer[1].rows)), FALSE, TRUE,
               IF disk_ok
               THEN [files EXCEPT !["education_policies.json"] =
                                      FileAt(t, Truncated)]
               ELSE files)

\* ProgrammingForAI-taba copy: an existing cache file is loaded whatever
\* its age; an unreadable one is deleted.  The years come from
\* get_education_investment_data; its exception, or a table without a
\* 'year' column, ends in `return []`.
taba_get_education_policies(files, t, answer, disk_ok) ==
    LET cache_file == files["education_policies.json"]
        unlinked == [files EXCEPT !["education_policies.json"] = Null]
        education_data == get_education_investment_data(unlinked, t, answer,
                                                        disk_ok)
        policies == Policies(education_data.output[1].rows)
    IN  IF cache_file # Null /\ ~JsonLoadRaises(cache_file[1].content)
        THEN Fetch(Some(JsonLoad(cache_file[1].content)), FALSE, FALSE,
                   files)
        ELSE IF education_data.raised
        THEN Fetch(Some(NoPolicies), FALSE, education_data.called,
                   education_data.files)
        ELSE IF "year" \notin education_data.output[1].columns
        THEN Fetch(Some(NoPolicies), FALSE, education_data.called,
                   education_data.files)
        ELSE Fetch(Some(policies), FALSE, education_data.called,
                   IF disk_ok
                   THEN [education_data.files
                           EXCEPT !["education_policies.json"] =
                                      FileAt(t, JsonDump(policies))]
                   ELSE education_data.files)

get_education_policies(c, files, t, answer, disk_ok) ==
    IF c = "ea" THEN ea_get_education_policies(files, t, answer, disk_ok)
                ELSE taba_get_education_policies(files, t, answer, disk_ok)

\* IMFDataProcessor.fetch_*: response is what requests.get met.
Responses == {"connection_error", "http_error", "not_200", "ok"}

imf_fetch(response, rows) ==
    IF response = "ok"
    THEN Fetch(Some([columns |-> {"country", "date", "value"},
                     rows |-> rows]), FALSE, TRUE, NoFiles)
    ELSE Fetch(Some(EmptyDataFrame), FALSE, TRUE, NoFiles)

fetch_gdp_data(response, rows) == imf_fetch(response, rows)
fetch_employment_data(response, rows) == imf_fetch(response, rows)
fetch_inflation_data(response, rows) == imf_fetch(response, rows)

\* The caller's view of a fetch: failed = the external source was asked
\* and did not answer; before = the dataset's cache file as the call found
\* it; at = the time of the call.
FetchOutcome(op, r, failed, before) ==
    [op |-> op, raised |-> r.raised, output |-> r.output,
     called |-> r.called, failed |-> failed /\ r.called,
     before |-> before, at |-> now]

Answers == {Null} \cup {Some(tb) : tb \in SourceTables}

GetEducationInvestmentData ==
    \E answer \in Answers, disk_ok \in BOOLEAN :
        LET r == get_education_investment_data(cache, now, answer, disk_ok)
        IN  /\ cache' = r.files
            /\ last' = FetchOutcome("get_education_investment_data", r,
                                answer = Null,
                                cache["education_investment.csv"])
            /\ UNCHANGED <<copy, env, self, made, mongo, db, nb, frame, now>>

GetEconomicIndicators ==
    \E answered \in IndicatorAnswers, rows \in SourceVersions,
       disk_ok \in BOOLEAN :
        LET r == get_economic_indicators(cache, now, answered, rows, disk_ok)
        IN  /\ cache' = r.files
            /\ last' = FetchOutcome("get_economic_indicators", r,
                                answered = {},
                                cache["economic_indicators.csv"])
            /\ UNCHANGED <<copy, env, self, made, mongo, db, nb, frame, now>>

GetEducationPolicies ==
    \E answer \in Answers, disk_ok \in BOOLEAN :
        LET r == get_education_policies(copy, cache, now, answer, disk_ok)
        IN  /\ cache' = r.files
            /\ last' = FetchOutcome("get_education_policies", r, answer = Null,
                                cache["education_policies.json"])
            /\ UNCHANGED <<copy, env, self, made, mongo, db, nb, frame, now>>

FetchGdpData ==
    \E response \in Responses, rows \in SourceVersions :
        /\ last' = FetchOutcome("fetch_gdp_data", fetch_gdp_data(response, rows),
                            response # "ok", Null)
        /\ UNCHANGED <<copy, env, self, made, mongo, db, nb, frame, cache,
                       now>>

FetchEmploymentData ==
    \E response \in Responses, rows \in SourceVersions :
        /\ last' = FetchOutcome("fetch_employment_data",
                            fetch_employment_data(response, rows),
                            response # "ok", Null)
        /\ UNCHANGED <<copy, env, self, made, mongo, db, nb, frame, cache,
                       now>>

FetchInflationData ==
    \E response \in Responses, rows \in SourceVersions :
        /\ last' = FetchOutcome("fetch_inflation_data",
                            fetch_inflation_data(response, rows),
                            response # "ok", Null)
        /\ UNCHANGED <<copy, env, self, made, mongo, db, nb, frame, cache,
                       now>>

\* Time passes between two calls.
Tick ==
    /\ now < MaxTime
    /\ now' = now + 1
    /\ UNCHANGED <<copy, env, self, made, mongo, db, last, nb, frame, cache>>

\* A collector of either copy on an empty cache directory.
InitFetch ==
    /\ copy \in {"ea", "taba"}
    /\ env = [testing_sqlite |-> FALSE, pg_cfg |-> TRUE, mongo_cfg |-> TRUE,
              db_bool_raises |-> TRUE]
    /\ self = DatabaseManager__init__(copy, env)
    /\ made = NoObjects
    /\ db = EmptyDatabase
    /\ mongo = <<>>
    /\ nb = NotCollecting
    /\ frame = NoFrame
    /\ last = Idle
    /\ cache = NoFiles
    /\ now = 0

NextFetch ==
    \/ GetEducationInvestmentData
    \/ GetEconomicIndicators
    \/ GetEducationPolicies
    \/ FetchGdpData
    \/ FetchEmploymentData
    \/ FetchInflationData
    \/ Tick

SpecFetch == InitFetch /\ [][NextFetch]_vars


\* The two cached frame fetchers alone, as time passes.
NextCache ==
    \/ GetEducationInvestmentData
    \/ GetEconomicIndicators
    \/ Tick

SpecCache == InitFetch /\ [][NextCache]_vars

\* ------------------------------------------------------------ fetch claims
\* The five indicator fetches.
IndicatorFetches == {"fetch_gdp_data", "fetch_employment_data",
                     "fetch_inflation_data",
                     "get_education_investment_data",
                     "get_economic_indicators"}

\* The last call was an indicator fetch whose request to the external
\* source failed.
RequestFailed == last.op \in IndicatorFetches /\ last.failed

\* C14: every indicator fetch (fetch_gdp_data, fetch_employment_data,
\* fetch_inflation_data, get_education_investment_data,
\* get_economic_indicators) returns an empty frame and does not raise when
\* the request to the external source fails.
C14_FailedRequestGivesEmptyFrame ==
    RequestFailed =>
        ~last.raised /\ last.output = Some(EmptyDataFrame)


\* The cached fetches and the cache file each of them keeps.
CacheFileOf == [get_education_investment_data |-> "education_investment.csv",
                get_economic_indicators |-> "economic_indicators.csv"]
CachedFetches == DOMAIN CacheFileOf

\* The last call was a cached fetch that found its file written by an
\* earlier fetch.
FoundCacheFile == last.op \in CachedFetches /\ last.before # Null

\* The last call found its cache file and made the fetch less than
\* cache_expiry after the file's mtime.
FoundFresh == FoundCacheFile /\ last.at - last.before[1].mtime < CacheExpiry

\* The last call found its cache file at or past its expiry.
FoundExpired ==
    FoundCacheFile /\ last.at - last.before[1].mtime >= CacheExpiry

\* The dataset's cache file was written by the last call.
Rewritten ==
    /\ cache[CacheFileOf[last.op]] # Null
    /\ cache[CacheFileOf[last.op]][1].mtime = last.at
    /\ ReadCsv(cache[CacheFileOf[last.op]][1].content).rows
           = last.output[1].rows

CacheFileKept == cache[CacheFileOf[last.op]] = last.before

C15_HitWitness == FoundFresh /\ ~last.called /\ last.at > last.before[1].mtime


\* The last call read a dataset's cache file that was older than
\* cache_expiry.
FoundStale ==
    /\ last.op \in CachedFetches \cup {"get_education_policies"}
    /\ last.before # Null
    /\ last.at - last.before[1].mtime > CacheExpiry

\* C16: every cache file is subject to the mtime-based expiry, the
\* education-policies JSON cache included: a fetch never returns the
\* content of a cache file whose mtime is older than cache_expiry.
C16_NoStaleCacheReturned ==
    FoundStale => last.called


\* ------------------------------------------------ document-store stamps
\* src/mongodb_data_import.py, store_in_mongodb.  mongo_doc: of the
\* metadata sub-document the model keeps the unit, which stands for the
\* three dimension columns freq, unit and isced11 (record.get(..., '')); the
\* other entries are the same for every record of a metric.
mongo_doc(record, t) ==
    [country |-> record.country, year |-> record.year,
     value |-> record.value,
     metadata |-> [unit |-> IF "unit" \in DOMAIN record THEN record.unit
                            ELSE ""],
     updated_at |-> t]

\* {'$set': mongo_doc}: the fields of mongo_doc replace those of the stored
\* document, its other fields stay.
SetFields(stored, doc) ==
    [f \in DOMAIN stored \cup DOMAIN doc |->
        IF f \in DOMAIN doc THEN doc[f] ELSE stored[f]]

\* Positions of the stored documents matching {'country', 'year'}.
Matching(coll, doc) ==
    {i \in DOMAIN coll :
        coll[i].country = doc.country /\ coll[i].year = doc.year}

\* UpdateOne(filter, {'$set': mongo_doc}, upsert=True): the first matching
\* document is updated, or mongo_doc inserted when none matches.
UpdateOne(coll, doc) ==
    IF Matching(coll, doc) = {}
    THEN Append(coll, doc)
    ELSE LET i == CHOOSE j \in Matching(coll, doc) :
                      \A k \in Matching(coll, doc) : j <= k
         IN [coll EXCEPT ![i] = SetFields(coll[i], doc)]

RECURSIVE bulk_write(_, _, _, _)
\* collection.bulk_write(operations): the first k operations of the batch.
bulk_write(coll, df_processed, k, t) ==
    IF k = 0 THEN coll
    ELSE UpdateOne(bulk_write(coll, df_processed, k - 1, t),
                   mongo_doc(df_processed[k], t))

\* up = FALSE: collection.create_index, outside any handler, raises.
\* lost = TRUE: bulk_write raises, which is counted and swallowed.
store_in_mongodb(coll, df_processed, up, lost, t) ==
    IF ~up
    THEN [mongo |-> coll, raised |-> TRUE, successful |-> 0, errors |-> 0]
    ELSE IF df_processed = <<>>
    THEN [mongo |-> coll, raised |-> FALSE, successful |-> 0, errors |-> 0]
    ELSE IF lost
    THEN [mongo |-> coll, raised |-> FALSE, successful |-> 0,
          errors |-> Len(df_processed)]
    ELSE [mongo |-> bulk_write(coll, df_processed, Len(df_processed), t),
          raised |-> FALSE, successful |-> Len(df_processed), errors |-> 0]

\* The records saved in these runs: those of one (country, year) key.
StampRecords == SeqsUpTo({d \in Docs : d.year = FirstYear}, MaxFrame)

StoreInMongodb ==
    \E up \in BOOLEAN, lost \in BOOLEAN, df_processed \in StampRecords :
        LET r == store_in_mongodb(mongo, df_processed, up, lost, now) IN
        /\ Len(r.mongo) <= MaxDocs
        /\ mongo' = r.mongo
        /\ last' = [op |-> "store_in_mongodb", raised |-> r.raised,
                    data |-> df_processed,
                    ret |-> <<r.successful, r.errors>>]
        /\ UNCHANGED <<copy, env, self, made, db, nb, frame, cache, now>>

\* save_to_mongo of such records.
SaveRecordsToMongo ==
    \E up \in BOOLEAN, documents \in StampRecords :
        LET r == save_to_mongo(copy, self, made, env, mongo, documents, up,
                               now) IN
        /\ WithinObjects(r.made)
        /\ Len(r.mongo) <= MaxDocs
        /\ self' = r.self
        /\ made' = r.made
        /\ mongo' = r.mongo
        /\ last' = [op |-> "save_to_mongo", raised |-> r.raised,
                    data |-> documents, ret |-> <<>>]
        /\ UNCHANGED <<nb, frame, copy, env, db, cache, now>>

\* Saves through the manager and through the import script, as time
\* passes.
InitStamp ==
    /\ Init
    /\ copy \in {"ea", "taba"}
    /\ env = [testing_sqlite |-> FALSE, pg_cfg |-> TRUE, mongo_cfg |-> TRUE,
              db_bool_raises |-> TRUE]

NextStamp ==
    \/ SaveRecordsToMongo
    \/ StoreInMongodb
    \/ Tick

SpecStamp == InitStamp /\ [][NextStamp]_vars

\* ------------------------------------------------------------ stamp claims
HasStamps(doc) == {"created_at", "updated_at"} \subseteq DOMAIN doc

\* Every stored document that stays in place keeps its created_at.
CreatedAtKept ==
    \A i \in DOMAIN mongo :
        (i \in DOMAIN mongo' /\ "created_at" \in DOMAIN mongo[i])
            => /\ "created_at" \in DOMAIN mongo'[i]
               /\ mongo'[i].created_at = mongo[i].created_at

\* C17: a document saved to the document store carries created_at and
\* updated_at stamps from the save that first inserted its key, and saving
\* the same key again leaves the stored created_at unchanged.
C17_StampedOnFirstInsert ==
    /\ [](\A i \in DOMAIN mongo : HasStamps(mongo[i]))
    /\ [][CreatedAtKept]_vars


\* ------------------------------------------------- EducationDataCollector
\* src/features/education_data/data_collection/education_data_collector.py
\* self.eu_countries and self.quarters: the model keeps one country and
\* the first two quarters; the years a run can be asked for are the two of
\* YearCols.
eu_countries == CountryOrder
quarters == <<"Q1", "Q2">>

\* collect_country_data: draw stands for the four sub-documents of random
\* numbers and for last_updated, which differ from one run to the next.
collect_country_data(country, year, quarter, draw) ==
    [country |-> country, year |-> year, quarter |-> quarter,
     data |-> draw]

\* Positions of the documents matching {'country', 'year', 'quarter'}.
MatchingKey(coll, doc) ==
    {i \in DOMAIN coll :
        /\ coll[i].country = doc.country
        /\ coll[i].year = doc.year
        /\ coll[i].quarter = doc.quarter}

\* A variant that inserts whether or not the key is stored.
update_one_always_inserts(coll, country_data) == Append(coll, country_data)

\* self.collection.update_one(filter, {'$set': country_data}, upsert=True)
update_one(coll, country_data) ==
    IF MatchingKey(coll, country_data) = {}
    THEN Append(coll, country_data)
    ELSE LET i == CHOOSE j \in MatchingKey(coll, country_data) :
                      \A k \in MatchingKey(coll, country_data) : j <= k
         IN [coll EXCEPT ![i] = SetFields(coll[i], country_data)]

\* The number of passes of the three nested loops.
Passes(start_year, end_year) ==
    IF end_year < start_year THEN 0
    ELSE (end_year - start_year + 1) * Len(quarters) * Len(eu_countries)

\* The (year, quarter, country) of pass k: years outermost, countries
\* innermost.
PassOf(start_year, k) ==
    [year |-> start_year + (k - 1) \div (Len(quarters) * Len(eu_countries)),
     quarter |-> quarters[(((k - 1) \div Len(eu_countries))
                               % Len(quarters)) + 1],
     country |-> eu_countries[((k - 1) % Len(eu_countries)) + 1]]

RECURSIVE collect_passes(_, _, _, _, _)
\* The first k passes; the update_one of pass fail_at raises, which is
\* logged, and the loop goes on.
collect_passes(coll, start_year, draw, fail_at, k) ==
    IF k = 0 THEN coll
    ELSE LET done == collect_passes(coll, start_year, draw, fail_at, k - 1)
             p == PassOf(start_year, k)
         IN IF k = fail_at THEN done
            ELSE update_one(done,
                            collect_country_data(p.country, p.year,
                                                 p.quarter, draw))

collect_all_data(coll, start_year, end_year, draw, fail_at) ==
    collect_passes(coll, start_year, draw, fail_at,
                   Passes(start_year, end_year))

CollectAllData ==
    \E start_year \in YearCols, end_year \in YearCols,
       draw \in SourceVersions :
        \E fail_at \in 0..Passes(start_year, end_year) :
            /\ mongo' = collect_all_data(mongo, start_year, end_year, draw,
                                         fail_at)
            /\ last' = [op |-> "collect_all_data", raised |-> FALSE,
                        start_year |-> start_year, end_year |-> end_year,
                        draw |-> draw, fail_at |-> fail_at]
            /\ UNCHANGED <<copy, env, self, made, db, nb, frame, cache, now>>

\* A collector just constructed on an empty education_data collection,
\* its unique index on (country, year, quarter) created.
InitCollector ==
    /\ copy = "ea"
    /\ env = [testing_sqlite |-> FALSE, pg_cfg |-> TRUE, mongo_cfg |-> TRUE,
              db_bool_raises |-> TRUE]
    /\ self = DatabaseManager__init__(copy, env)
    /\ made = NoObjects
    /\ db = EmptyDatabase
    /\ mongo = <<>>
    /\ nb = NotCollecting
    /\ frame = NoFrame
    /\ last = Idle
    /\ cache = NoFiles
    /\ now = 0

NextCollector == CollectAllData

SpecCollector == InitCollector /\ [][NextCollector]_vars

\* ------------------------------------------------------- collector claims
\* The stored documents of a (country, year, quarter).
StoredFor(p) ==
    SelectSeq(mongo, LAMBDA d : /\ d.country = p.country
                                /\ d.year = p.year
                                /\ d.quarter = p.quarter)

\* The last call was a collect_all_data run.
Collected == last.op = "collect_all_data"

\* C18: after any number of collect_all_data runs the education_data
\* collection holds exactly one document per (country, year, quarter): no
\* two stored documents share a key, and every key a run has written holds
\* the one document of that run, a key collected before included.
C18_OneDocumentPerKey ==
    /\ \A i \in DOMAIN mongo : MatchingKey(mongo, mongo[i]) = {i}
    /\ Collected =>
          \A k \in 1..Passes(last.start_year, last.end_year) :
              k # last.fail_at =>
                  StoredFor(PassOf(last.start_year, k))
                      = <<collect_country_data(
                              PassOf(last.start_year, k).country,
                              PassOf(last.start_year, k).year,
                              PassOf(last.start_year, k).quarter,
                              last.draw)>>

\* A run over one year has replaced the documents of that year, collected
\* before the other year was: every key is stored, the first document is
\* of the run's year and holds its draw, the last one holds another draw.
C18_Witness ==
    /\ Collected /\ last.fail_at = 0
    /\ last.start_year = last.end_year
    /\ Len(mongo) = Cardinality(YearCols) * Len(quarters) * Len(eu_countries)
    /\ mongo[1].year = last.start_year /\ mongo[1].data = last.draw
    /\ mongo[Len(mongo)].data # last.draw


\* ------------------------------------------------- economic analysis runs
\* src/economic_analysis/src/analysis/economic_analysis_notebook.py
Indicators == <<"GDP", "Employment", "Inflation">>

\* countries = gdp_data['country_code'].unique(), the frame sorted by
\* country_code in preprocess_data.
CountryLists == {<<>>, <<"DE">>, <<"FR">>, <<"DE", "FR">>}

DerivedCollections == {"summary_statistics", "correlations", "key_metrics"}
NoResults == [c \in DerivedCollections |-> <<>>]

\* Positions of the documents matching the identifier.
MatchingIdentifier(coll, identifier) ==
    {i \in DOMAIN coll :
        \A f \in DOMAIN identifier :
            f \in DOMAIN coll[i] /\ coll[i][f] = identifier[f]}

\* save_to_mongodb(mongo_db, collection_name, data, identifier): with an
\* identifier, update_one(identifier, {'$set': data}, upsert=True);
\* without one (Null), insert_one(data).  The timestamp / calculation_date
\* of data is part of its draw.
save_to_mongodb(coll, data, identifier) ==
    IF identifier # Null
    THEN IF MatchingIdentifier(coll, identifier[1]) = {}
         THEN Append(coll, SetFields(identifier[1], data))
         ELSE LET i == CHOOSE j \in MatchingIdentifier(coll, identifier[1]) :
                           \A k \in MatchingIdentifier(coll, identifier[1]) :
                               j <= k
              IN [coll EXCEPT ![i] = SetFields(coll[i], data)]
    ELSE Append(coll, data)

RECURSIVE SummaryStatistics(_, _, _)
\* calculate_summary_statistics for the first k indicators.
SummaryStatistics(coll, draw, k) ==
    IF k = 0 THEN coll
    ELSE save_to_mongodb(SummaryStatistics(coll, draw, k - 1),
                         [indicator |-> Indicators[k], statistics |-> draw],
                         Some([indicator |-> Indicators[k]]))

RECURSIVE Correlations(_, _, _, _)
\* calculate_correlations for the first k countries.
Correlations(coll, countries, draw, k) ==
    IF k = 0 THEN coll
    ELSE save_to_mongodb(Correlations(coll, countries, draw, k - 1),
                         [country_code |-> countries[k],
                          correlations |-> draw],
                         Some([country_code |-> countries[k]]))

\* calculate_key_metrics: one document with the metrics of every country.
KeyMetrics(coll, countries, draw) ==
    save_to_mongodb(coll, [metrics |-> [countries |-> countries,
                                        values |-> draw]], Null)

\* main(): stop_at = 1, 2, 3: the store raises before the summary
\* statistics, the correlations, the key metrics are saved (0: never);
\* with no row loaded, insert_many of the empty preprocessed list raises
\* before anything is derived.
main(colls, countries, draw, stop_at) ==
    LET s1 == [colls EXCEPT !["summary_statistics"] =
                  SummaryStatistics(@, draw, Len(Indicators))]
        s2 == [s1 EXCEPT !["correlations"] =
                  Correlations(@, countries, draw, Len(countries))]
        s3 == [s2 EXCEPT !["key_metrics"] = KeyMetrics(@, countries, draw)]
    IN  IF countries = <<>> \/ stop_at = 1
        THEN [mongo |-> colls, raised |-> TRUE]
        ELSE IF stop_at = 2 THEN [mongo |-> s1, raised |-> TRUE]
        ELSE IF stop_at = 3 THEN [mongo |-> s2, raised |-> TRUE]
        ELSE [mongo |-> s3, raised |-> FALSE]

Main ==
    \E countries \in CountryLists, draw \in SourceVersions,
       stop_at \in 0..3 :
        LET r == main(mongo, countries, draw, stop_at) IN
        /\ Len(r.mongo["key_metrics"]) <= MaxRuns
        /\ mongo' = r.mongo
        /\ last' = [op |-> "main", raised |-> r.raised,
                    countries |-> countries, draw |-> draw]
        /\ UNCHANGED <<copy, env, self, made, db, nb, frame, cache, now>>

\* The analysis script on a database without derived results.
InitAnalysis ==
    /\ copy = "ea"
    /\ env = [testing_sqlite |-> FALSE, pg_cfg |-> TRUE, mongo_cfg |-> TRUE,
              db_bool_raises |-> TRUE]
    /\ self = DatabaseManager__init__(copy, env)
    /\ made = NoObjects
    /\ db = EmptyDatabase
    /\ mongo = NoResults
    /\ nb = NotCollecting
    /\ frame = NoFrame
    /\ last = Idle
    /\ cache = NoFiles
    /\ now = 0

NextAnalysis == Main

SpecAnalysis == InitAnalysis /\ [][NextAnalysis]_vars

\* -------------------------------------------------------- analysis claims
\* The last call was an analysis run that went through.
AnalysisCompleted == last.op = "main" /\ ~last.raised

\* C19: after any number of runs of the economic analysis each
\* derived-results collection holds only the results of the latest run:
\* summary_statistics one document per indicator, correlations one
\* document per country_code of the run, key_metrics one document.
C19_OnlyLatestResults ==
    AnalysisCompleted =>
        /\ Len(mongo["summary_statistics"]) = Len(Indicators)
        /\ \A i \in DOMAIN mongo["summary_statistics"] :
               mongo["summary_statistics"][i].statistics = last.draw
        /\ Len(mongo["correlations"]) = Len(last.countries)
        /\ \A i \in DOMAIN mongo["correlations"] :
               mongo["correlations"][i].correlations = last.draw
        /\ Len(mongo["key_metrics"]) = 1


\* ------------------------------------------------------ correlation matrix
\* src/education_analysis/tests/test_analysis.py, and
\* combined_data.corr() of calculate_correlations: DataFrame.corr(),
\* Pearson, over the rows of a frame without NaN.
MaxCorrRows == 4

\* sample_data[['value', 'gdp_growth', 'employment_rate']]
IndicatorColumns == <<"value", "gdp_growth", "employment_rate">>
CorrValues == {0, 1}
CorrRows == [Range(IndicatorColumns) -> CorrValues]

RECURSIVE SumOver(_, _, _, _)
\* The sum of rows[i][x] * rows[i][y] over the first k rows.
SumOver(rows, x, y, k) ==
    IF k = 0 THEN 0
    ELSE SumOver(rows, x, y, k - 1) + rows[k][x] * rows[k][y]

RECURSIVE SumOf(_, _, _)
SumOf(rows, x, k) ==
    IF k = 0 THEN 0 ELSE SumOf(rows, x, k - 1) + rows[k][x]

\* n times the sum of products of deviations from the means of x and y
\* (n * covxy of nancorr; n * ssqdm when x = y).
Codeviation(rows, x, y) ==
    Len(rows) * SumOver(rows, x, y, Len(rows))
        - SumOf(rows, x, Len(rows)) * SumOf(rows, y, Len(rows))

\* A variant that returns the covariance covxy / n instead of dividing by
\* the two deviations.
CorrEntry_covariance(rows, x, y) ==
    IF Len(rows) < 1 THEN Null
    ELSE Some([num |-> Codeviation(rows, x, y),
               den2 |-> Len(rows) * Len(rows) * Len(rows) * Len(rows)])

\* One entry of the matrix: covxy / sqrt(ssqdmx * ssqdmy), kept as the
\* numerator and the square of the divisor; NaN (Null) when there is no
\* observation or the divisor is 0.
CorrEntry(rows, x, y) ==
    IF Len(rows) < 1 THEN Null
    ELSE IF Codeviation(rows, x, x) * Codeviation(rows, y, y) = 0 THEN Null
    ELSE Some([num |-> Codeviation(rows, x, y),
               den2 |-> Codeviation(rows, x, x) * Codeviation(rows, y, y)])

\* The position of a column.
ColumnIndex(c) == CHOOSE i \in DOMAIN IndicatorColumns : IndicatorColumns[i] = c

\* DataFrame.corr(): each entry on or below the diagonal is computed once
\* and assigned to result[xi, yi] and result[yi, xi].
corr(rows) ==
    [x \in Range(IndicatorColumns) |->
        [y \in Range(IndicatorColumns) |->
            IF ColumnIndex(y) <= ColumnIndex(x)
            THEN CorrEntry(rows, x, y)
            ELSE CorrEntry(rows, y, x)]]

\* test_correlation_calculation / calculate_correlations on the frame.
CorrelationCalculation ==
    /\ frame.columns = Range(IndicatorColumns)
    /\ last' = [op |-> "corr", raised |-> FALSE,
                correlations |-> corr(frame.rows)]
    /\ UNCHANGED <<copy, env, self, made, mongo, db, nb, frame, cache, now>>

\* A cleaned frame of the indicator columns: it holds no NaN.
InitCorr ==
    /\ copy = "ea"
    /\ env = [testing_sqlite |-> FALSE, pg_cfg |-> TRUE, mongo_cfg |-> TRUE,
              db_bool_raises |-> TRUE]
    /\ self = DatabaseManager__init__(copy, env)
    /\ made = NoObjects
    /\ db = EmptyDatabase
    /\ mongo = <<>>
    /\ nb = NotCollecting
    /\ last = Idle
    /\ cache = NoFiles
    /\ now = 0
    /\ \E n \in 0..MaxCorrRows :
          \E rows \in [1..n -> CorrRows] :
              frame = [columns |-> Range(IndicatorColumns), rows |-> rows]

NextCorr == CorrelationCalculation

SpecCorr == InitCorr /\ [][NextCorr]_vars

\* ----------------------------------------------------- correlation claims
\* np.allclose on two entries: NaN is close to nothing, itself included.
IsClose(a, b) ==
    /\ a # Null /\ b # Null
    /\ (a[1].num >= 0) = (b[1].num >= 0)
    /\ a[1].num * a[1].num * b[1].den2 = b[1].num * b[1].num * a[1].den2

\* The entry is 1.0.
IsOne(a) ==
    a # Null /\ a[1].num > 0 /\ a[1].num * a[1].num = a[1].den2

\* The matrix is symmetric and has 1.0 on every diagonal entry.
SymmetricUnitDiagonal(m) ==
    /\ \A x, y \in DOMAIN m : IsClose(m[x][y], m[y][x])
    /\ \A x \in DOMAIN m : IsOne(m[x][x])

\* The column takes one value only (or the frame has no row).
ConstantColumn(rows, x) == \A i, j \in DOMAIN rows : rows[i][x] = rows[j][x]

\* The last call computed the correlation matrix of the frame.
Correlated == last.op = "corr"

\* C20 as stated: the correlation matrix computed over the indicator
\* columns of a cleaned frame is symmetric and has 1.0 on every diagonal
\* entry.
C20_SymmetricUnitDiagonal ==
    Correlated => SymmetricUnitDiagonal(last.correlations)

\* C20, amended: when every indicator column of the cleaned frame takes at
\* least two different values, the correlation matrix is symmetric and has
\* 1.0 on every diagonal entry; a column that takes one value only has NaN
\* in its whole row and column of the matrix, its diagonal entry included.
C20_SymmetricUnitDiagonalUnlessConstant ==
    Correlated =>
        /\ (\A x \in Range(IndicatorColumns) : ~ConstantColumn(frame.rows, x))
              => SymmetricUnitDiagonal(last.correlations)
        /\ \A x, y \in Range(IndicatorColumns) :
              (ConstantColumn(frame.rows, x) \/ ConstantColumn(frame.rows, y))
                  <=> last.correlations[x][y] = Null

\* The matrix of a frame without constant column, two of whose columns are
\* neither uncorrelated nor perfectly correlated.
C20_Witness ==
    /\ Correlated
    /\ \A x \in Range(IndicatorColumns) : ~ConstantColumn(frame.rows, x)
    /\ \E x, y \in Range(IndicatorColumns) :
          /\ last.correlations[x][y][1].num # 0
          /\ ~IsOne(last.correlations[x][y])
          /\ last.correlations[x][y][1].num > 0


\* The last call was a get_economic_indicators that asked the source and
\* got data for some of the configured indicators only.
PartialAnswer ==
    /\ last.op = "get_economic_indicators" /\ last.called
    /\ last.output # Null
    /\ ~(WB_INDICATORS \subseteq last.output[1].columns)

\* C29: get_economic_indicators writes the economic_indicators cache file
\* only with a complete result: when the fetch of any of the four
\* configured indicators fails or returns no data the cache file is left
\* unchanged, so no frame that lacks an indicator column is ever cached.
C29_CacheOnlyCompleteResult ==
    /\ PartialAnswer => cache["economic_indicators.csv"] = last.before
    /\ cache["economic_indicators.csv"] # Null =>
           WB_INDICATORS \subseteq
               cache["economic_indicators.csv"][1].content.columns

\* ---------------------------------------------------------------------
\* IMFDataProcessor.merge_economic_data
\* (education_analysis/src/data_processing/imf_data_processor.py)
\* ---------------------------------------------------------------------

MaxMergeRows == 2

MergeKeys == [country : Countries, year : YearCols]
RateVals == {1, 2}
GdpRows == [country : Countries, year : YearCols, gdp_growth : RateVals]
EmploymentRows ==
    [country : Countries, year : YearCols, employment_rate : RateVals]

\* A variant that joins on the country alone.
RowsMatching_country_only(row, right) ==
    SelectSeq(right, LAMBDA r : r.country = row.country)

\* on=['country', 'year']: the rows of the right frame whose key equals the
\* key of a row of the left frame, in the right frame's order.
RowsMatching(row, right) ==
    SelectSeq(right, LAMBDA r : r.country = row.country /\ r.year = row.year)

\* One output row per matching pair: the key columns once, then the other
\* columns of the left row and of the right row.
Joined(row, matches) ==
    [i \in 1..Len(matches) |->
        [country |-> row.country, year |-> row.year,
         gdp_growth |-> row.gdp_growth,
         employment_rate |-> matches[i].employment_rate]]

\* pd.merge(left, right, on=['country', 'year'], how='inner'): the pairs of
\* rows with equal keys, in the order of the left frame.
RECURSIVE pd_merge_inner(_, _)
pd_merge_inner(left, right) ==
    IF left = <<>> THEN <<>>
    ELSE Joined(Head(left), RowsMatching(Head(left), right))
             \o pd_merge_inner(Tail(left), right)

merge_economic_data(gdp_data, employment_data) ==
    pd_merge_inner(gdp_data, employment_data)

MergeEconomicData ==
    /\ last' = [op |-> "merge_economic_data", raised |-> FALSE,
                output |-> merge_economic_data(frame.gdp, frame.employment)]
    /\ UNCHANGED <<copy, env, self, made, mongo, db, nb, frame, cache, now>>

InitMerge ==
    /\ copy = "ea"
    /\ env = [testing_sqlite |-> FALSE, pg_cfg |-> TRUE, mongo_cfg |-> TRUE,
              db_bool_raises |-> TRUE]
    /\ self = DatabaseManager__init__(copy, env)
    /\ made = NoObjects
    /\ db = EmptyDatabase
    /\ mongo = <<>>
    /\ nb = NotCollecting
    /\ last = Idle
    /\ cache = NoFiles
    /\ now = 0
    /\ \E gdp \in SeqsUpTo(GdpRows, MaxMergeRows) :
          \E employment \in SeqsUpTo(EmploymentRows, MaxMergeRows) :
              frame = [gdp |-> gdp, employment |-> employment]

NextMerge == MergeEconomicData

SpecMerge == InitMerge /\ [][NextMerge]_vars

MergeKeyOf(row) == [country |-> row.country, year |-> row.year]

KeysOf(rows) == {MergeKeyOf(rows[i]) : i \in DOMAIN rows}

UniqueKeys(rows) ==
    \A i, j \in DOMAIN rows : MergeKeyOf(rows[i]) = MergeKeyOf(rows[j]) => i = j

Merged ==
    /\ last.op = "merge_economic_data"
    /\ UniqueKeys(frame.gdp) /\ UniqueKeys(frame.employment)

\* C21: for GDP and employment frames in which each (country, year) key
\* occurs at most once, merge_economic_data returns exactly one row for each
\* key present in both frames and no row for any other key, and every
\* returned row carries the gdp_growth of the GDP row and the
\* employment_rate of the employment row with that key.
C21_OneRowPerCommonKey ==
    Merged =>
        /\ \A k \in MergeKeys :
              Cardinality({i \in DOMAIN last.output :
                               MergeKeyOf(last.output[i]) = k})
                  = IF k \in KeysOf(frame.gdp) \cap KeysOf(frame.employment)
                    THEN 1 ELSE 0
        /\ \A i \in DOMAIN last.output :
              /\ \E g \in DOMAIN frame.gdp :
                    /\ MergeKeyOf(frame.gdp[g]) = MergeKeyOf(last.output[i])
                    /\ frame.gdp[g].gdp_growth = last.output[i].gdp_growth
              /\ \E e \in DOMAIN frame.employment :
                    /\ MergeKeyOf(frame.employment[e])
                           = MergeKeyOf(last.output[i])
                    /\ frame.employment[e].employment_rate
                           = last.output[i].employment_rate

\* A merge of frames with unique keys that share one key while the GDP
\* frame holds a key the employment frame lacks.
C21_Witness ==
    /\ Merged
    /\ Len(last.output) = 1
    /\ KeysOf(frame.gdp) \ KeysOf(frame.employment) # {}

\* ---------------------------------------------------------------------
\* DatabaseManager.setup_postgres_tables / store_in_postgres
\* (inbox/education_analysis/scripts/data_processing/db_manager.py)
\* ---------------------------------------------------------------------

MaxStoreRows == 2

\* The rows of the frame handed to store_in_postgres.
StoreRows == [geo : Countries, time : YearCols, values : RateVals]
StoreFrames == SeqsUpTo(StoreRows, MaxStoreRows)
IndicatorCodes == {"educ_uoe_enra01"}

\* The education_data table: whether it exists, whether a unique index or
\* constraint covers (indicator_code, country_code, year), its rows, and
\* whether the connection's transaction is in the failed state.
NoEducationData ==
    [exists |-> FALSE, unique_key |-> FALSE, rows |-> <<>>,
     aborted |-> FALSE]

\* The outcome of a statement: the table afterwards and whether the server
\* reported an error (which leaves the transaction failed).
Executed(d) == [db |-> d, error |-> FALSE]
Failed(d) == [db |-> [d EXCEPT !.aborted = TRUE], error |-> TRUE]

ConflictKey(r) ==
    [indicator_code |-> r.indicator_code, country_code |-> r.country_code,
     year |-> r.year]

\* One proposed row under ON CONFLICT ... DO UPDATE SET value =
\* EXCLUDED.value: the row with the same key gets the value, or the row is
\* appended.
Upsert(rows, r) ==
    IF \E i \in DOMAIN rows : ConflictKey(rows[i]) = ConflictKey(r)
    THEN [i \in DOMAIN rows |->
             IF ConflictKey(rows[i]) = ConflictKey(r)
             THEN [rows[i] EXCEPT !.value = r.value] ELSE rows[i]]
    ELSE Append(rows, r)

RECURSIVE UpsertAll(_, _)
UpsertAll(rows, data) ==
    IF data = <<>> THEN rows
    ELSE UpsertAll(Upsert(rows, Head(data)), Tail(data))

\* INSERT ... VALUES data ON CONFLICT (indicator_code, country_code, year)
\* DO UPDATE: the server rejects the statement when the transaction has
\* already failed, when the table is missing, when no unique index or
\* constraint matches the conflict target, and when two proposed rows have
\* the same key.
InsertOnConflict(d, data) ==
    IF d.aborted \/ ~d.exists \/ ~d.unique_key THEN Failed(d)
    ELSE IF \E i, j \in DOMAIN data :
                i # j /\ ConflictKey(data[i]) = ConflictKey(data[j])
         THEN Failed(d)
    ELSE Executed([d EXCEPT !.rows = UpsertAll(@, data)])

\* psycopg2's execute_values sends one statement per page of the argument
\* list, and none for an empty list.
execute_values(d, data) ==
    IF data = <<>> THEN Executed(d) ELSE InsertOnConflict(d, data)

\* commit() ends the transaction; on a failed transaction the server rolls
\* back and reports no error.
Commit(d) == [d EXCEPT !.aborted = FALSE]

\* CREATE TABLE IF NOT EXISTS education_data (id SERIAL PRIMARY KEY, ...)
\* and CREATE INDEX IF NOT EXISTS idx_education_data: a plain index.
CreateEducationData(d) ==
    IF d.aborted THEN Failed(d)
    ELSE Executed([d EXCEPT !.exists = TRUE])

\* The result of a store call: the manager, the objects made, the table and
\* the returned bool.
Stored(s, m, d, ok) == [self |-> s, made |-> m, db |-> d, output |-> ok]

setup_postgres_tables(s, m, e, d, up) ==
    LET c == IF s.pg_conn = None THEN inbox_connect_postgres(s, m, e, up)
             ELSE Outcome(s, m, FALSE) IN
    IF c.self.pg_conn = None THEN Stored(c.self, c.made, d, FALSE)
    ELSE LET x == CreateEducationData(d) IN
         IF x.error THEN Stored(c.self, c.made, x.db, FALSE)
         ELSE Stored(c.self, c.made, Commit(x.db), TRUE)

store_in_postgres(s, m, e, d, df, indicator_code, up) ==
    LET c == IF s.pg_conn = None THEN inbox_connect_postgres(s, m, e, up)
             ELSE Outcome(s, m, FALSE)
        data == [i \in DOMAIN df |->
                    [indicator_code |-> indicator_code,
                     country_code |-> df[i].geo, year |-> df[i].time,
                     value |-> df[i].values]] IN
    IF c.self.pg_conn = None THEN Stored(c.self, c.made, d, FALSE)
    ELSE LET x == execute_values(d, data) IN
         IF x.error THEN Stored(c.self, c.made, x.db, FALSE)
         ELSE Stored(c.self, c.made, Commit(x.db), TRUE)

\* What the caller of a store call observes, and the state the call found.
StoreOutcome(op, r, df, up, d) ==
    [op |-> op, raised |-> FALSE, output |-> r.output, df |-> df,
     connected |-> r.self.pg_conn # None, found |-> d]

SetupPostgresTables ==
    \E up \in BOOLEAN :
        LET r == setup_postgres_tables(self, made, env, db, up) IN
        /\ self' = r.self /\ made' = r.made /\ db' = r.db
        /\ last' = StoreOutcome("setup_postgres_tables", r, <<>>, up, db)
        /\ UNCHANGED <<copy, env, mongo, nb, frame, cache, now>>

StoreFrameInPostgres ==
    \E up \in BOOLEAN, df \in StoreFrames, code \in IndicatorCodes :
        LET r == store_in_postgres(self, made, env, db, df, code, up) IN
        /\ self' = r.self /\ made' = r.made /\ db' = r.db
        /\ last' = StoreOutcome("store_in_postgres", r, df, up, db)
        /\ UNCHANGED <<copy, env, mongo, nb, frame, cache, now>>

InitStore ==
    /\ copy = "inbox"
    /\ env = [testing_sqlite |-> FALSE, pg_cfg |-> TRUE, mongo_cfg |-> TRUE,
              db_bool_raises |-> TRUE]
    /\ self = DatabaseManager__init__(copy, env)
    /\ made = NoObjects
    /\ db = NoEducationData
    /\ mongo = <<>>
    /\ nb = NotCollecting
    /\ frame = NoFrame
    /\ last = Idle
    /\ cache = NoFiles
    /\ now = 0

NextStore == SetupPostgresTables \/ StoreFrameInPostgres

SpecStore == InitStore /\ [][NextStore]_vars

\* The last call was a store_in_postgres of a non-empty frame that reached
\* the server and found the table set up and no failed transaction.
StoredOnSetUpTable ==
    /\ last.op = "store_in_postgres"
    /\ last.connected
    /\ last.found.exists /\ ~last.found.aborted
    /\ last.df # <<>>

\* C22: on an education_data table created by setup_postgres_tables,
\* store_in_postgres returns True and leaves exactly one row per
\* (indicator_code, country_code, year): the table holds a row for every key
\* of the frame and no two rows with the same key.
C22_StoreKeepsOneRowPerKey ==
    StoredOnSetUpTable =>
        /\ last.output
        /\ \A i \in DOMAIN last.df :
              \E j \in DOMAIN db.rows :
                  /\ db.rows[j].country_code = last.df[i].geo
                  /\ db.rows[j].year = last.df[i].time
        /\ \A i, j \in DOMAIN db.rows :
              ConflictKey(db.rows[i]) = ConflictKey(db.rows[j]) => i = j

\* ---------------------------------------------------------------------
\* EurostatCollector.get_education_data
\* (inbox/education_analysis/scripts/data_collection/eurostat_collector.py)
\* ---------------------------------------------------------------------

max_retries == 3

\* What one eurostat.get_data_df call gives: an exception, None, an empty
\* frame, a frame with the geo column and a numeric column, a non-empty
\* frame without the geo column, or one without a numeric column.
SourceAnswers == {"raise", "none", "empty", "data", "no_geo", "no_numeric"}

\* A variant that takes an empty frame for data.
Yields_not_none(answer) == answer \notin {"raise", "none"}

\* df is not None and not df.empty
Yields(answer) == answer \in {"data", "no_geo", "no_numeric"}

\* The metadata document of an indicator.
Metadata(indicator, df) ==
    [_id |-> indicator, countries |-> {df[i].geo : i \in DOMAIN df}]

\* store_in_mongodb of the inbox copy: update_one on _id with upsert.
inbox_store_in_mongodb(s, m, e, coll, data, up) ==
    LET c == IF s.mongo_db = None THEN inbox_connect_mongodb(s, m, e, up)
             ELSE Outcome(s, m, e.db_bool_raises) IN
    IF c.raised \/ ~up
    THEN [self |-> c.self, made |-> c.made, mongo |-> coll, output |-> FALSE]
    ELSE [self |-> c.self, made |-> c.made, output |-> TRUE,
          mongo |-> IF \E i \in DOMAIN coll : coll[i]._id = data._id
                    THEN [i \in DOMAIN coll |->
                             IF coll[i]._id = data._id THEN data
                             ELSE coll[i]]
                    ELSE Append(coll, data)]

\* A get_education_data call in progress: its position, the index of the
\* next attempt, the answers received so far, df (Null while the name is
\* unbound), the store calls issued, the returned value, and the two
\* stores as the call found them.
NotRunning == [pc |-> "idle"]

Running(d, coll) ==
    [pc |-> "loop", attempt |-> 0, answers |-> <<>>, df |-> Null,
     stores |-> {}, output |-> Null, db_before |-> d, mongo_before |-> coll]

\* One pass of `for attempt in range(max_retries)`.
AfterAttempt(run, answer) ==
    LET r == [run EXCEPT !.answers = Append(@, answer)] IN
    IF answer = "raise"
    THEN IF run.attempt < max_retries - 1
         THEN [r EXCEPT !.attempt = @ + 1]
         ELSE \* raise e: the outer handler returns None
              [r EXCEPT !.pc = "done"]
    ELSE IF Yields(answer)
         THEN [r EXCEPT !.df = Some(answer), !.pc = "after_loop"]
    ELSE [r EXCEPT !.df = Some(answer), !.attempt = @ + 1,
                   !.pc = IF run.attempt + 1 < max_retries THEN "loop"
                          ELSE "after_loop"]

\* Lines 65-96: whether the frame reaches the stores.  An unbound df raises
\* at line 65 and the outer handler returns None.
ReachesStores(run) ==
    /\ run.df # Null
    /\ Yields(run.df[1])
    /\ run.df[1] = "data"

StartGetEducationData ==
    /\ nb.pc \in {"idle", "done"}
    /\ made.conn < MaxObjects
    /\ nb' = Running(db, mongo)
    /\ UNCHANGED <<copy, env, self, made, mongo, db, last, frame, cache, now>>

GetDataDf ==
    /\ nb.pc = "loop"
    /\ \E answer \in SourceAnswers : nb' = AfterAttempt(nb, answer)
    /\ UNCHANGED <<copy, env, self, made, mongo, db, last, frame, cache, now>>

ReturnNone ==
    /\ nb.pc = "after_loop"
    /\ ~ReachesStores(nb)
    /\ nb' = [nb EXCEPT !.pc = "done"]
    /\ UNCHANGED <<copy, env, self, made, mongo, db, last, frame, cache, now>>

\* Lines 98-113: connect_postgres and, when it succeeded,
\* store_in_postgres; then store_in_mongodb; the frame is returned.
StoreAndReturn ==
    /\ nb.pc = "after_loop"
    /\ ReachesStores(nb)
    /\ \E df \in StoreFrames, code \in IndicatorCodes,
          pg_up \in BOOLEAN, mongo_up \in BOOLEAN :
          LET c == inbox_connect_postgres(self, made, env, pg_up)
              p == IF pg_up
                   THEN store_in_postgres(c.self, c.made, env, db, df, code,
                                          pg_up)
                   ELSE Stored(c.self, c.made, db, FALSE)
              g == inbox_store_in_mongodb(p.self, p.made, env, mongo,
                                          Metadata(code, df), mongo_up) IN
          /\ self' = g.self /\ made' = g.made
          /\ db' = p.db /\ mongo' = g.mongo
          /\ nb' = [nb EXCEPT !.pc = "done", !.output = Some(df),
                              !.stores = (IF pg_up THEN {"postgres"} ELSE {})
                                             \cup {"mongodb"}]
    /\ UNCHANGED <<copy, env, last, frame, cache, now>>

InitRetry ==
    /\ copy = "inbox"
    /\ env \in {e \in Envs : ~e.testing_sqlite /\ e.pg_cfg /\ e.mongo_cfg}
    /\ self = DatabaseManager__init__(copy, env)
    /\ made = NoObjects
    /\ db \in {NoEducationData, [NoEducationData EXCEPT !.exists = TRUE]}
    /\ mongo = <<>>
    /\ nb = NotRunning
    /\ frame = NoFrame
    /\ last = Idle
    /\ cache = NoFiles
    /\ now = 0

NextRetry == StartGetEducationData \/ GetDataDf \/ ReturnNone \/ StoreAndReturn

SpecRetry == InitRetry /\ [][NextRetry]_vars

\* The answers of the source that are a frame with at least one row.
NonEmptyFrames == {"data", "no_geo", "no_numeric"}

\* No attempt of the call has yielded a non-empty frame.
NothingYielded ==
    \A i \in DOMAIN nb.answers : nb.answers[i] \notin NonEmptyFrames

\* C23: get_education_data calls the external source at most 3 times per
\* invocation, stops at the first attempt that yields a non-empty frame
\* (and not before the third attempt otherwise), and when no attempt yields
\* one returns None without storing anything in PostgreSQL or MongoDB.
C23_AtMostThreeAttempts ==
    nb.pc # "idle" =>
        /\ Len(nb.answers) <= 3
        /\ \A i \in DOMAIN nb.answers :
              nb.answers[i] \in NonEmptyFrames =>
                  i = Len(nb.answers) /\ nb.pc # "loop"
        /\ nb.pc # "loop" /\ NothingYielded => Len(nb.answers) = 3
        /\ nb.pc = "done" /\ NothingYielded =>
              /\ nb.output = Null
              /\ nb.stores = {}
              /\ db = nb.db_before /\ mongo = nb.mongo_before

\* A call that returned None after two failures and an empty frame.
C23_Witness ==
    /\ nb.pc = "done"
    /\ Len(nb.answers) = 3
    /\ NothingYielded
    /\ nb.answers[3] = "empty"

\* ---------------------------------------------------------------------
\* The storage and retrieval cells of the v3 education-investment pipeline
\* (ProgrammingForAI-taba/education_analysis/notebooks/
\*  education_investment_analysis_v3.py, lines 77-153)
\* ---------------------------------------------------------------------

\* query_mongo of the ProgrammingForAI-taba copy.
taba_query_mongo(s, m, e, coll, up) ==
    LET c == IF s.mongo_db = None
             THEN taba_connect_mongo(s, m, e, up) ELSE Outcome(s, m, FALSE)
    IN IF c.raised \/ ~up THEN [self |-> c.self, made |-> c.made,
                                raised |-> TRUE, ret |-> <<>>]
       ELSE [self |-> c.self, made |-> c.made, raised |-> FALSE,
             ret |-> coll]

\* The cells in order.  sys.exit(1) ends the run at "exit".
PostgresSteps ==
    {"create_tables", "insert_education_data", "insert_economic_data",
     "get_education_data", "get_economic_data"}
MongoSteps == {"save_to_mongo", "query_mongo"}

\* The pipeline's run: the next cell, the manager calls attempted so far,
\* whether each connect returned (Null before the cell ran), and the call
\* whose exception ended the run.
PipelineStart ==
    [pc |-> "connect_postgres", steps |-> {}, postgres |-> Null,
     mongo |-> Null, exit_from |-> Null]

Attempted(run, step) == [run EXCEPT !.steps = @ \cup {step}]

Exit(run, step) == [run EXCEPT !.pc = "exit", !.exit_from = Some(step)]

\* Lines 79-85.
CellConnectPostgres ==
    /\ nb.pc = "connect_postgres"
    /\ \E up \in BOOLEAN :
          LET r == taba_connect_postgres(self, made, env, up)
              run == [Attempted(nb, "connect_postgres")
                          EXCEPT !.postgres = Some(~r.raised)] IN
          /\ self' = r.self /\ made' = r.made
          /\ nb' = IF r.raised THEN Exit(run, "connect_postgres")
                   ELSE [run EXCEPT !.pc = "connect_mongo"]
    /\ UNCHANGED <<copy, env, mongo, db, last, frame, cache, now>>

\* Lines 87-92.
CellConnectMongo ==
    /\ nb.pc = "connect_mongo"
    /\ \E up \in BOOLEAN :
          LET r == taba_connect_mongo(self, made, env, up) IN
          /\ self' = r.self /\ made' = r.made
          /\ nb' = [Attempted(nb, "connect_mongo")
                        EXCEPT !.mongo = Some(~r.raised),
                               !.pc = "create_tables"]
    /\ UNCHANGED <<copy, env, mongo, db, last, frame, cache, now>>

\* Lines 95-101.
CellCreateTables ==
    /\ nb.pc = "create_tables"
    /\ \E up \in BOOLEAN :
          LET r == taba_create_tables(self, made, env, db, up)
              run == Attempted(nb, "create_tables") IN
          /\ self' = r.self /\ made' = r.made /\ db' = r.db
          /\ nb' = IF r.raised THEN Exit(run, "create_tables")
                   ELSE [run EXCEPT !.pc = "insert"]
    /\ UNCHANGED <<copy, env, mongo, last, frame, cache, now>>

\* Lines 104-112: two inserts in one try.
CellInsert ==
    /\ nb.pc = "insert"
    /\ \E up \in BOOLEAN, fail_at \in 0..1 :
       \E education \in WideFrames, economic \in LongFrames :
          LET r1 == taba_insert_data(self, made, env, db, "education_data",
                                     education, up, fail_at)
              r2 == taba_insert_data(r1.self, r1.made, env, r1.db,
                                     "economic_data", economic, up, 0)
              run1 == Attempted(nb, "insert_education_data")
              run2 == Attempted(run1, "insert_economic_data") IN
          IF r1.raised
          THEN /\ self' = r1.self /\ made' = r1.made /\ db' = r1.db
               /\ nb' = Exit(run1, "insert_education_data")
          ELSE /\ self' = r2.self /\ made' = r2.made /\ db' = r2.db
               /\ nb' = IF r2.raised
                        THEN Exit(run2, "insert_economic_data")
                        ELSE [run2 EXCEPT !.pc = "save_to_mongo"]
    /\ UNCHANGED <<copy, env, mongo, last, frame, cache, now>>

\* Lines 115-124.
CellSaveToMongo ==
    /\ nb.pc = "save_to_mongo"
    /\ IF self.mongo_db # None
       THEN \E up \in BOOLEAN, policy_docs \in DocLists :
               LET r == taba_save_to_mongo(self, made, env, mongo,
                                           policy_docs, up, now) IN
               /\ self' = r.self /\ made' = r.made /\ mongo' = r.mongo
               /\ nb' = [Attempted(nb, "save_to_mongo")
                             EXCEPT !.pc = "retrieve"]
       ELSE /\ nb' = [nb EXCEPT !.pc = "retrieve"]
            /\ UNCHANGED <<self, made, mongo>>
    /\ UNCHANGED <<copy, env, db, last, frame, cache, now>>

\* Lines 134-142.
CellRetrieve ==
    /\ nb.pc = "retrieve"
    /\ \E up \in BOOLEAN :
          LET r1 == taba_get_education_data(self, made, env, db, up)
              r2 == taba_get_economic_data(r1.self, r1.made, env, db, up)
              run1 == Attempted(nb, "get_education_data")
              run2 == Attempted(run1, "get_economic_data") IN
          IF r1.raised
          THEN /\ self' = r1.self /\ made' = r1.made
               /\ nb' = Exit(run1, "get_education_data")
          ELSE /\ self' = r2.self /\ made' = r2.made
               /\ nb' = IF r2.raised THEN Exit(run2, "get_economic_data")
                        ELSE [run2 EXCEPT !.pc = "query_mongo"]
    /\ UNCHANGED <<copy, env, mongo, db, last, frame, cache, now>>

\* Lines 145-153.
CellQueryMongo ==
    /\ nb.pc = "query_mongo"
    /\ IF self.mongo_db # None
       THEN \E up \in BOOLEAN :
               LET r == taba_query_mongo(self, made, env, mongo, up) IN
               /\ self' = r.self /\ made' = r.made
               /\ nb' = [Attempted(nb, "query_mongo") EXCEPT !.pc = "done"]
       ELSE /\ nb' = [nb EXCEPT !.pc = "done"]
            /\ UNCHANGED <<self, made>>
    /\ UNCHANGED <<copy, env, mongo, db, last, frame, cache, now>>

InitPipeline ==
    /\ copy = "taba"
    /\ env \in Envs
    /\ self = DatabaseManager__init__(copy, env)
    /\ made = NoObjects
    /\ db = EmptyDatabase
    /\ mongo = <<>>
    /\ nb = PipelineStart
    /\ frame = NoFrame
    /\ last = Idle
    /\ cache = NoFiles
    /\ now = 0

NextPipeline ==
    \/ CellConnectPostgres \/ CellConnectMongo \/ CellCreateTables
    \/ CellInsert \/ CellSaveToMongo \/ CellRetrieve \/ CellQueryMongo

SpecPipeline == InitPipeline /\ [][NextPipeline]_vars

\* The database is as the pipeline found it: no table, no row.
TablesUntouched == db = EmptyDatabase

MongoConnectFailed == nb.mongo = Some(FALSE)

\* C24: in the v3 pipeline no table is created or written unless
\* connect_postgres succeeded, and save_to_mongo / query_mongo are attempted
\* only when connect_mongo succeeded: after a failed connect_mongo the
\* manager's mongo_db is None and the pipeline skips every MongoDB step
\* while continuing with PostgreSQL (only a PostgreSQL call ends the run).
C24_StepsGatedByConnects ==
    /\ nb.steps \cap PostgresSteps # {} => nb.postgres = Some(TRUE)
    /\ nb.postgres # Some(TRUE) => TablesUntouched
    /\ nb.steps \cap MongoSteps # {} => nb.mongo = Some(TRUE)
    /\ MongoConnectFailed =>
          /\ self.mongo_db = None
          /\ mongo = <<>>
          /\ nb.pc = "exit" => nb.exit_from[1] \in PostgresSteps

\* A run that lost MongoDB at the connect and still got to the end, with
\* rows written to PostgreSQL.
C24_Witness ==
    /\ MongoConnectFailed
    /\ nb.pc = "done"
    /\ \E t \in Tables : db[t].rows # <<>>

\* ---------------------------------------------------------------------
\* DataValidator
\* (inbox/features/education_data/data_collection/data_validator.py)
\* ---------------------------------------------------------------------

MaxDataset == 3

\* Values of a record's fields: a number, or something that is no number.
Number(n) == [type |-> "number", v |-> n]
NotANumber == [type |-> "str"]

\* self.validation_rules, in the order of the literal: per category, the
\* fields with their inclusive bounds.
validation_rules ==
    << [category |-> "education_expenditure",
        rules |-> << <<"total_gdp_percentage", 0, 15>>,
                     <<"per_student_primary", 1000, 20000>>,
                     <<"per_student_secondary", 1000, 25000>>,
                     <<"per_student_tertiary", 1000, 30000>>,
                     <<"research_development", 0, 5>> >>],
       [category |-> "education_resources",
        rules |-> << <<"student_teacher_ratio_primary", 5, 30>>,
                     <<"student_teacher_ratio_secondary", 5, 25>>,
                     <<"teacher_salary_index", 50, 200>>,
                     <<"digital_resources_investment", 0, 2000>> >>],
       [category |-> "education_participation",
        rules |-> << <<"enrollment_rate_primary", 80, 100>>,
                     <<"enrollment_rate_secondary", 70, 100>>,
                     <<"enrollment_rate_tertiary", 20, 100>>,
                     <<"dropout_rate", 0, 30>> >>],
       [category |-> "education_quality",
        rules |-> << <<"teacher_qualification_index", 0, 1>>,
                     <<"average_class_size", 10, 40>>,
                     <<"teaching_hours_yearly", 500, 1200>>,
                     <<"digital_learning_percentage", 0, 100>> >>] >>

required_fields ==
    <<"country", "year", "education_expenditure", "education_resources",
      "education_participation", "education_quality">>

RECURSIVE Flatten(_)
Flatten(seqs) ==
    IF seqs = <<>> THEN <<>> ELSE Head(seqs) \o Flatten(Tail(seqs))

\* Lines 51-54: one error per required field the record lacks.
MissingFieldErrors(record) ==
    LET missing == SelectSeq(required_fields,
                             LAMBDA f : f \notin DOMAIN record) IN
    [i \in DOMAIN missing |-> [error |-> "missing", field |-> missing[i]]]

\* Lines 60-68: the errors of one rule on the mapping found under its
\* category: none when the field is absent or within the bounds.
RuleErrors(category, values, rule) ==
    IF rule[1] \notin DOMAIN values THEN <<>>
    ELSE IF values[rule[1]].type # "number"
         THEN << [error |-> "type", category |-> category,
                  field |-> rule[1]] >>
    ELSE IF ~(rule[2] <= values[rule[1]].v /\ values[rule[1]].v <= rule[3])
         THEN << [error |-> "range", category |-> category,
                  field |-> rule[1]] >>
    ELSE <<>>

\* Lines 57-68.
RangeErrors(record) ==
    Flatten([c \in DOMAIN validation_rules |->
        IF validation_rules[c].category \notin DOMAIN record THEN <<>>
        ELSE Flatten([r \in DOMAIN validation_rules[c].rules |->
                 RuleErrors(validation_rules[c].category,
                            record[validation_rules[c].category],
                            validation_rules[c].rules[r])])])

validate_record(record) == MissingFieldErrors(record) \o RangeErrors(record)

\* A variant that adds the number of errors instead of one per record.
RecordsWithErrors_per_error(errors) ==
    Len(Flatten(errors))

\* `if errors: records_with_errors += 1`, over the records' error lists.
RecordsWithErrors(errors) ==
    Cardinality({i \in DOMAIN errors : errors[i] # <<>>})

\* round(records_with_errors / total_records * 100, 2), in hundredths of a
\* percent.
ErrorRate(records_with_errors, total_records) ==
    IF total_records > 0
    THEN (2 * records_with_errors * 10000 + total_records)
             \div (2 * total_records)
    ELSE 0

validate_dataset(data) ==
    LET errors == [i \in DOMAIN data |-> validate_record(data[i])]
        total_records == Len(data)
        records_with_errors == RecordsWithErrors(errors)
        all_errors == Flatten(errors) IN
    [total_records |-> total_records,
     valid_records |-> total_records - records_with_errors,
     records_with_errors |-> records_with_errors,
     error_rate |-> ErrorRate(records_with_errors, total_records),
     total_errors |-> Len(all_errors),
     error_details |-> SubSeq(all_errors, 1, Min(10, Len(all_errors)))]

\* The records the datasets are drawn from.  ValidRecord has every required
\* field and values on the bounds of their ranges.
ValidRecord ==
    [country |-> "DE", year |-> FirstYear,
     education_expenditure |->
         [total_gdp_percentage |-> Number(15),
          research_development |-> Number(0)],
     education_resources |-> [teacher_salary_index |-> Number(50)],
     education_participation |-> [dropout_rate |-> Number(30)],
     education_quality |-> [average_class_size |-> Number(10)]]

\* A record without the fields in `without`.
Without(record, without) ==
    [f \in DOMAIN record \ without |-> record[f]]

SampleRecords ==
    { ValidRecord,
      Without(ValidRecord, DOMAIN ValidRecord),
      Without(ValidRecord, {"country"}),
      Without(ValidRecord, {"year", "education_quality"}),
      [ValidRecord EXCEPT
          !.education_expenditure.total_gdp_percentage = Number(16)],
      [ValidRecord EXCEPT
          !.education_resources.teacher_salary_index = NotANumber],
      [ValidRecord EXCEPT
          !.education_expenditure.research_development = Number(-1),
          !.education_participation.dropout_rate = Number(31),
          !.education_quality.average_class_size = NotANumber] }

Datasets == SeqsUpTo(SampleRecords, MaxDataset)

ValidateDataset ==
    /\ last' = [op |-> "validate_dataset", raised |-> FALSE,
                output |-> validate_dataset(frame)]
    /\ UNCHANGED <<copy, env, self, made, mongo, db, nb, frame, cache, now>>

InitValidate ==
    /\ copy = "inbox"
    /\ env = [testing_sqlite |-> FALSE, pg_cfg |-> TRUE, mongo_cfg |-> TRUE,
              db_bool_raises |-> TRUE]
    /\ self = DatabaseManager__init__(copy, env)
    /\ made = NoObjects
    /\ db = EmptyDatabase
    /\ mongo = <<>>
    /\ nb = NotCollecting
    /\ last = Idle
    /\ cache = NoFiles
    /\ now = 0
    /\ frame \in Datasets

NextValidate == ValidateDataset

SpecValidate == InitValidate /\ [][NextValidate]_vars

Validated == last.op = "validate_dataset"

\* C25: for every dataset (of records whose categories are mappings),
\* validate_dataset returns counts with valid_records + records_with_errors
\* = total_records, where a record is counted in records_with_errors
\* exactly when validate_record reports at least one error; error_details
\* holds at most 10 entries and error_rate is 0 for an empty dataset.
C25_CountsAddUp ==
    Validated =>
        /\ last.output.total_records = Len(frame)
        /\ last.output.valid_records + last.output.records_with_errors
               = last.output.total_records
        /\ last.output.records_with_errors
               = Cardinality({i \in DOMAIN frame :
                                  Len(validate_record(frame[i])) >= 1})
        /\ Len(last.output.error_details) <= 10
        /\ frame = <<>> => last.output.error_rate = 0

\* A dataset with a valid record and more than ten errors in the others.
C25_Witness ==
    /\ Validated
    /\ last.output.valid_records >= 1
    /\ last.output.total_errors > 10
    /\ Len(last.output.error_details) = 10

\* -------------------------------------------------- all-or-nothing claim
SaveRaised == last.op = "save_batches" /\ last.raised

\* C26: save_to_postgres is all-or-nothing: whenever it raises, the target
\* table holds exactly the rows it held before the call.
C26_SaveAllOrNothing ==
    SaveRaised => db[last.table].rows = last.before[last.table].rows

\* ------------------------------------------------- use after close claim
\* A manager that is connected, closed and used again.
NextReuse == ConnectMongo \/ CloseConnections \/ SaveToMongo

SpecReuse == InitSave /\ [][NextReuse]_vars

\* C27: after close_connections, no DatabaseManager operation is issued on
\* a closed connection or client: a later save_to_mongo first re-establishes
\* the connection through its lazy-connect guard, so the database handle it
\* has used belongs to the manager's open client.
C27_NoUseAfterClose ==
    last.op = "save_to_mongo" => ~MongoDbClosed(self)

\* ------------------------------------------------------ SQLite test mode
RelationalOps ==
    {"create_tables", "insert_education_data", "insert_economic_data",
     "get_education_data", "get_economic_data"}

\* The last call was a relational operation on a manager built with
\* TESTING=true and DB_TYPE=sqlite.
RelationalOpUnderSqlite == self.use_sqlite /\ last.op \in RelationalOps

\* C28: with TESTING=true and DB_TYPE=sqlite, every relational operation of
\* DatabaseManager runs against the SQLite database, and none uses the
\* PostgreSQL engine while it is still None: the operation has the SQLite
\* engine to work on, and create_tables returns.
C28_SqliteModeUsesSqlite ==
    RelationalOpUnderSqlite =>
        /\ self.sqlite_engine # None
        /\ last.op = "create_tables" => ~last.raised

\* ---------------------------------------------------------------------
\* process_dataset followed by store_in_mongodb (src/mongodb_data_import.py)
\* ---------------------------------------------------------------------

MaxImportRows == 2

\* A row of the Eurostat frame: the country, the dimension column and one
\* value per year column.
Units == {"PC_GDP", "MIO_EUR"}
ImportRows == [geo : Countries, unit : Units, vals : [YearCols -> Vals]]
ImportFrames == SeqsUpTo(ImportRows, MaxImportRows)

RECURSIVE ProcessFrom(_, _)
\* Lines 74-85: per year column the rows in input order, with the country,
\* the value of that year, the year and the remaining columns.
ProcessFrom(df, y) ==
    IF y \notin YearCols THEN <<>>
    ELSE [i \in 1..Len(df) |->
             [country |-> df[i].geo, value |-> df[i].vals[y],
              unit |-> df[i].unit, year |-> y]]
         \o ProcessFrom(df, y + 1)

\* Lines 88-89: rows without a numeric value are dropped.
process_dataset(df) ==
    SelectSeq(ProcessFrom(df, FirstYear), LAMBDA r : r.value # Null)

\* mongodb_data_import.py main: process a dataset and store the result in
\* the metric's collection.
ImportDataset ==
    /\ last.op = "init"
    /\ \E up \in BOOLEAN, lost \in BOOLEAN :
          LET df_processed == process_dataset(frame)
              r == store_in_mongodb(mongo, df_processed, up, lost, now) IN
          /\ mongo' = r.mongo
          /\ last' = [op |-> "import", raised |-> r.raised,
                      data |-> df_processed,
                      ret |-> <<r.successful, r.errors>>]
    /\ UNCHANGED <<copy, env, self, made, db, nb, frame, cache, now>>

InitImport ==
    /\ copy = "ea"
    /\ env = [testing_sqlite |-> FALSE, pg_cfg |-> TRUE, mongo_cfg |-> TRUE,
              db_bool_raises |-> TRUE]
    /\ self = DatabaseManager__init__(copy, env)
    /\ made = NoObjects
    /\ db = EmptyDatabase
    /\ mongo = <<>>
    /\ nb = NotCollecting
    /\ last = Idle
    /\ cache = NoFiles
    /\ now = 0
    /\ frame \in ImportFrames

NextImport == ImportDataset

SpecImport == InitImport /\ [][NextImport]_vars

\* The processed rows differ pairwise in country, year or the dimension
\* column, and the store reported no error.
ImportedDistinctRows ==
    /\ last.op = "import" /\ ~last.raised
    /\ last.ret[2] = 0
    /\ \A i, j \in DOMAIN last.data :
          (/\ last.data[i].country = last.data[j].country
           /\ last.data[i].year = last.data[j].year
           /\ last.data[i].unit = last.data[j].unit) => i = j

====
